---- MODULE Spec2Model ----
(***************************************************************************)
(* Model of the Jira Software node's execute method (Jira.execute): the    *)
(* per-record request building, validation and request sequencing.         *)
(*                                                                         *)
(* One behaviour is one call of execute on one batch of input records.     *)
(* Every await of an outbound request is a position of pc; an action is    *)
(* the code that runs between two awaits.                                  *)
(***************************************************************************)
EXTENDS Integers, Sequences, FiniteSets, TLC

VARIABLES
    resource,     \* getNodeParameter('resource', 0)
    operation,    \* getNodeParameter('operation', 0)
    jiraVersion,  \* getNodeParameter('jiraVersion', 0)
    items,        \* this.getInputData() with each record's node parameters
    i,            \* loop index of the record being processed (0-based)
    index,        \* index of the entry whose content is being downloaded (0-based)
    pc,           \* position in execute
    qs,           \* const qs: IDataObject = {}, declared once per execute
    body,         \* body of the record being processed
    fields,       \* fields of the record being processed (issue create/update)
    requests,     \* outbound requests issued so far, in order, with their outcome
    returnData,   \* const returnData: IDataObject[] = []
    error,        \* message of the error thrown out of execute, "" if none
    result        \* value returned by execute, <<>> until it returns

vars == <<resource, operation, jiraVersion, items, i, index, pc, qs, body, fields, requests,
          returnData, error, result>>

----------------------------------------------------------------------------
(* Bounds *)

MaxItems == 2

----------------------------------------------------------------------------
(* JavaScript objects as functions over the keys that are present *)

EmptyMap == [k \in {} |-> TRUE]

Has(m, k) == k \in DOMAIN m

Put(m, k, v) == [x \in (DOMAIN m) \cup {k} |-> IF x = k THEN v ELSE m[x]]

Without(m, k) == [x \in (DOMAIN m) \ {k} |-> m[x]]

\* Object.assign(target, source)
Assign(target, source) ==
    [x \in (DOMAIN target) \cup (DOMAIN source) |->
        IF x \in DOMAIN source THEN source[x] ELSE target[x]]

\* truthiness of an optional string, boolean, key (sequence of characters)
TruthyStr(m, k) == Has(m, k) /\ m[k] # ""
TruthyBool(m, k) == Has(m, k) /\ m[k] = TRUE
TruthyKey(m, k) == Has(m, k) /\ Len(m[k]) > 0

\* String.prototype.toUpperCase on a sequence of characters
UpperChar(c) ==
    CASE c = "a" -> "A"
      [] c = "b" -> "B"
      [] OTHER -> c

ToUpperCase(s) == [n \in 1..Len(s) |-> UpperChar(s[n])]

SeqsUpTo(S, n) == UNION {[1..m -> S] : m \in 1..n}

----------------------------------------------------------------------------
(* JSON texts and their parsed values; a value carries its JavaScript type *)

JsStr(v) == [t |-> "string", v |-> v]
JsObj(v) == [t |-> "object", v |-> v]
JsNull == [t |-> "null", v |-> "null"]
JsBool(v) == [t |-> "boolean", v |-> v]

\* texts JSON.parse accepts, with the value each one parses to
ValidJson ==
    {"{\"reporter\":true}", "{\"type\":\"doc\"}", "\"\"", "null", "false"}

\* texts JSON.parse rejects with a SyntaxError
InvalidJson == {"", "{", "{reporter:true}"}

JSONParse(text) ==
    CASE text = "{\"reporter\":true}" -> JsObj([reporter |-> TRUE])
      [] text = "{\"type\":\"doc\"}" -> JsObj([type |-> "doc"])
      [] text = "\"\"" -> JsStr("")
      [] text = "null" -> JsNull
      [] text = "false" -> JsBool(FALSE)

\* validateJSON(json): try { result = JSON.parse(json) } catch { result = '' }
validateJSON(json) ==
    IF json \in ValidJson THEN JSONParse(json) ELSE JsStr("")

\* json === ''
IsEmptyString(x) == x.t = "string" /\ x.v = ""

\* if (x)
Truthy(x) ==
    CASE x.t = "string" -> x.v # ""
      [] x.t = "boolean" -> x.v
      [] x.t = "null" -> FALSE
      [] x.t = "object" -> TRUE

----------------------------------------------------------------------------
(* Error messages *)

ParentKeyMsg == "You must define a Parent Issue Key when Issue type is sub-task"
InvalidJsonMsg == "Document Format must be a valid JSON"
NoBinaryMsg == "No binary data exists on item!"
NoBinaryPropertyMsg == "No binary data property does not exists on item!"
RequestFailedMsg == "request failed"

ValidationErrors == {ParentKeyMsg, InvalidJsonMsg, NoBinaryMsg, NoBinaryPropertyMsg}

----------------------------------------------------------------------------
(* Inputs *)

IssueTypeIds == <<"10001", "10002">>
IssueKeys == {"PRJ-1"}
ParentKeys == {<<>>, <<"a", "b">>, <<"A", "1">>}

\* additionalFields of issue create: only the keys the caller set are present
CreateAdditionalFields ==
    UNION {{[k \in ks |-> IF k = "parentIssueKey" THEN pk ELSE TRUE] : pk \in ParentKeys}
           : ks \in SUBSET {"parentIssueKey", "updateHistory"}}

CreateRecords ==
    [summary : {"s"}, project : {"p"}, issueType : {"10001"},
     additionalFields : CreateAdditionalFields]

\* updateFields of issue update
UpdateUpdateFields ==
    UNION {{[k \in ks |-> CASE k = "parentIssueKey" -> pk
                           [] k = "issueType" -> "10001"
                           [] k = "statusId" -> "31"] : pk \in {<<"a", "b">>}}
           : ks \in SUBSET {"parentIssueKey", "issueType", "statusId"}}

\* updateFields whose values were opened in the UI and left empty, or set
UpdatePlainFields ==
    {[summary |-> "", labels |-> <<"l1">>],
     [summary |-> "s", labels |-> <<>>],
     [customFieldsUi |-> [customFieldsValues |->
                              <<[fieldId |-> "customfield_1", fieldValue |-> ""]>>]]}

UpdateRecords ==
    [issueKey : IssueKeys, updateFields : UpdateUpdateFields \cup UpdatePlainFields]

\* additionalFields of issue get
GetAdditionalFields ==
    {[k \in ks |-> IF k = "expand" THEN "names" ELSE TRUE]
     : ks \in SUBSET {"expand", "updateHistory"}}

GetRecords == [issueKey : IssueKeys, additionalFields : GetAdditionalFields]

\* issue notify: the recipient groups of the UI, or the raw JSON texts
RecipientsValues ==
    {[reporter |-> FALSE, assignee |-> FALSE, watchers |-> FALSE, voters |-> FALSE,
      users |-> <<>>, groups |-> <<>>],
     [reporter |-> TRUE, assignee |-> FALSE, watchers |-> TRUE, voters |-> FALSE,
      users |-> <<"u1">>, groups |-> <<>>],
     [reporter |-> FALSE, assignee |-> TRUE, watchers |-> FALSE, voters |-> TRUE,
      users |-> <<>>, groups |-> <<>>]}

RecipientsUi ==
    {EmptyMap} \cup {[notificationRecipientsValues |-> v] : v \in RecipientsValues}

RestrictionsUi ==
    {EmptyMap, [notificationRecipientsRestrictionsValues |-> [groups |-> <<"g1">>]]}

NotifyRecords ==
    [issueKey : IssueKeys, additionalFields : {EmptyMap}, jsonParameters : {FALSE},
     notificationRecipientsUi : RecipientsUi,
     notificationRecipientsRestrictionsUi : RestrictionsUi,
     notificationRecipientsJson : {""},
     notificationRecipientsRestrictionsJson : {""}]
    \cup
    [issueKey : IssueKeys, additionalFields : {EmptyMap}, jsonParameters : {TRUE},
     notificationRecipientsUi : {EmptyMap},
     notificationRecipientsRestrictionsUi : {EmptyMap},
     notificationRecipientsJson : {"{", "{\"reporter\":true}", "null"},
     notificationRecipientsRestrictionsJson : {"{reporter:true}", "{\"type\":\"doc\"}"}]

\* issueAttachment add: the record's binary data, if any
BinaryFile == [fileName |-> "a.txt", data |-> "bytes"]

BinaryData ==
    {[defined |-> FALSE, props |-> EmptyMap],
     [defined |-> TRUE, props |-> [data |-> BinaryFile]],
     [defined |-> TRUE, props |-> [data |-> [fileName |-> "b.png", data |-> "pixels"]]],
     [defined |-> TRUE, props |-> [other |-> BinaryFile]]}

AttachmentAddRecords ==
    [binaryPropertyName : {"data"}, issueKey : IssueKeys, binary : BinaryData]

\* issueComment add and update: the plain comment, or the raw JSON text
CommentOptions == {EmptyMap, [expand |-> "renderedBody"]}

CommentRecords ==
    [issueKey : IssueKeys, commentId : {"7"}, options : CommentOptions,
     jsonParameters : {FALSE}, comment : {"hello"}, commentJson : {""}]
    \cup
    [issueKey : IssueKeys, commentId : {"7"}, options : CommentOptions,
     jsonParameters : {TRUE}, comment : {""},
     commentJson : {"{", "{\"type\":\"doc\"}", "\"\""}]

\* list operations: the limit of a record and the options it sets
Limits == {1, 2}

GetAllOptions == {EmptyMap, [jql |-> "project = PRJ", fields |-> <<"a", ",", "b">>]}

GetAllRecords == [returnAll : {FALSE}, limit : Limits, options : GetAllOptions]

ChangelogRecords == [issueKey : IssueKeys, returnAll : {FALSE}, limit : Limits]

CommentGetAllRecords ==
    [issueKey : IssueKeys, returnAll : {FALSE}, limit : Limits, options : CommentOptions]

\* issueAttachment get and getAll: binaryProperty is shown only with download,
\* limit only without returnAll; a hidden field keeps its default
AttachmentIds == {"100", "101"}

DownloadChoices ==
    {[download |-> FALSE, binaryProperty |-> "data"]}
        \cup [download : {TRUE}, binaryProperty : {"data", "file"}]

AttachmentGetRecords ==
    {Put(d, "attachmentId", id) : d \in DownloadChoices, id \in AttachmentIds}

AttachmentGetAllRecords ==
    {Assign([issueKey |-> k, returnAll |-> l.returnAll, limit |-> l.limit], d) :
        k \in IssueKeys, d \in DownloadChoices,
        l \in {[returnAll |-> TRUE, limit |-> 50]} \cup [returnAll : {FALSE}, limit : Limits]}

\* the Jira server: how many entries a list holds and the page size it applies
Totals == 0..2
PageSizes == {1, 2}

AccountIds == {"a1", "a2"}

\* the (resource, operation) pairs of the node and the records each one reads
Operations ==
    {<<"issue", "create">>, <<"issue", "update">>, <<"issue", "get">>,
     <<"issue", "notify">>, <<"issueAttachment", "add">>,
     <<"issueComment", "add">>, <<"issueComment", "update">>,
     <<"issue", "getAll">>, <<"issue", "changelog">>, <<"issueComment", "getAll">>,
     <<"issueAttachment", "get">>, <<"issueAttachment", "getAll">>,
     <<"issue", "delete">>, <<"issueAttachment", "remove">>,
     <<"issueComment", "get">>, <<"issueComment", "remove">>,
     <<"user", "create">>, <<"user", "delete">>, <<"user", "get">>}

RecordsOf(res, op) ==
    CASE res = "issue" /\ op = "create" -> CreateRecords
      [] res = "issue" /\ op = "update" -> UpdateRecords
      [] res = "issue" /\ op = "get" -> GetRecords
      [] res = "issue" /\ op = "notify" -> NotifyRecords
      [] res = "issueAttachment" /\ op = "add" -> AttachmentAddRecords
      [] res = "issueComment" /\ op = "add" -> CommentRecords
      [] res = "issueComment" /\ op = "update" -> CommentRecords
      [] res = "issue" /\ op = "getAll" -> GetAllRecords
      [] res = "issue" /\ op = "changelog" -> ChangelogRecords
      [] res = "issueComment" /\ op = "getAll" -> CommentGetAllRecords
      [] res = "issueAttachment" /\ op = "get" -> AttachmentGetRecords
      [] res = "issueAttachment" /\ op = "getAll" -> AttachmentGetAllRecords
      [] res = "issue" /\ op = "delete" -> [issueKey : IssueKeys, deleteSubtasks : BOOLEAN]
      [] res = "issueAttachment" /\ op = "remove" -> [attachmentId : AttachmentIds]
      [] res = "issueComment" /\ op = "get" ->
             [issueKey : IssueKeys, commentId : {"7"}, options : CommentOptions]
      [] res = "issueComment" /\ op = "remove" ->
             [issueKey : IssueKeys, commentId : {"7", "8"}]
      [] res = "user" /\ op = "create" ->
             [username : {"u1"}, emailAddress : {"u1@example.com"}, displayName : {"U 1"},
              additionalFields : {EmptyMap, [password |-> "secret"]}]
      [] res = "user" /\ op = "delete" -> [accountId : AccountIds]
      [] res = "user" /\ op = "get" ->
             [accountId : AccountIds,
              additionalFields : {EmptyMap, [expand |-> <<"groups", "applicationRoles">>]}]

JiraVersions == {"cloud", "server"}

\* responses of GET /api/2/issuetype: every type id with its subtask flag
IssueTypeResponses ==
    {[n \in 1..Len(IssueTypeIds) |-> [id |-> IssueTypeIds[n], subtask |-> f[n]]]
     : f \in [1..Len(IssueTypeIds) -> BOOLEAN]}

----------------------------------------------------------------------------
(* Helpers of execute *)

getNodeParameter(name, idx) == items[idx + 1][name]

length == Len(items)

Awaiting == pc \notin {"loop", "done", "failed"}

\* jiraSoftwareCloudApiRequest.call(this, endpoint, method, body, qs): the request
\* is issued and execute is suspended until the response arrives
RequestWith(method, path, b, q, uri, option) ==
    [item |-> i, method |-> method, path |-> path, body |-> b, qs |-> q,
     uri |-> uri, option |-> option, status |-> "pending", data |-> <<>>]

Request(method, path, b, q) == RequestWith(method, path, b, q, <<>>, EmptyMap)

Respond(status, data) ==
    [requests EXCEPT ![Len(requests)].status = status,
                     ![Len(requests)].data = data]

\* String.prototype.split on a sequence of characters
RECURSIVE Split(_, _)
Split(s, sep) ==
    IF \A n \in 1..Len(s) : s[n] # sep
    THEN <<s>>
    ELSE LET k == CHOOSE n \in 1..Len(s) :
                      s[n] = sep /\ \A m \in 1..(n - 1) : s[m] # sep
         IN  <<SubSeq(s, 1, k - 1)>> \o Split(SubSeq(s, k + 1, Len(s)), sep)

Min(a, b) == IF a <= b THEN a ELSE b

\* the page of a list the server answers the pending request with: a GET endpoint
\* reads maxResults from the query string, POST /api/2/search from the body; the
\* server never returns more than its own page size
ListPage(prop, total, pageSize) ==
    LET r == requests[Len(requests)]
        read == IF r.method = "GET" THEN r.qs ELSE r.body
        size == IF Has(read, "maxResults") THEN Min(read["maxResults"], pageSize)
                ELSE pageSize
        page == [n \in 1..Min(total, size) |-> [id |-> <<Len(requests), n>>]]
    IN  Put([startAt |-> 0, maxResults |-> size, total |-> total], prop, page)

\* faulty variant: every type id of the response counts as sub-task
subtaskIssues_All(issueTypes) ==
    {issueTypes[n].id : n \in 1..Len(issueTypes)}

\* for (const issueType of issueTypes) if (issueType.subtask) subtaskIssues.push(issueType.id)
subtaskIssues(issueTypes) ==
    {issueTypes[n].id : n \in {m \in 1..Len(issueTypes) : issueTypes[m].subtask}}

\* customFields.reduce((obj, value) =>
\*     Object.assign(obj, { [`${value.fieldId}`]: value.fieldValue }), {})
CustomFieldsData(customFields) ==
    [k \in {customFields[n].fieldId : n \in 1..Len(customFields)} |->
        LET last == CHOOSE n \in 1..Len(customFields) :
                        /\ customFields[n].fieldId = k
                        /\ \A m \in 1..Len(customFields) :
                               customFields[m].fieldId = k => m <= n
        IN  customFields[last].fieldValue]

----------------------------------------------------------------------------
(* issue: create *)

CreateFields(idx) ==
    LET additionalFields == getNodeParameter("additionalFields", idx)
        f0 == [summary |-> getNodeParameter("summary", idx),
               project |-> [id |-> getNodeParameter("project", idx)],
               issuetype |-> [id |-> getNodeParameter("issueType", idx)]]
        f1 == IF Has(additionalFields, "labels")
              THEN Put(f0, "labels", additionalFields["labels"]) ELSE f0
        f2 == IF Has(additionalFields, "serverLabels")
              THEN Put(f1, "labels", additionalFields["serverLabels"]) ELSE f1
        f3 == IF TruthyStr(additionalFields, "priority")
              THEN Put(f2, "priority", [id |-> additionalFields["priority"]]) ELSE f2
        f4 == IF TruthyStr(additionalFields, "assignee")
              THEN IF jiraVersion = "server"
                   THEN Put(f3, "assignee", [name |-> additionalFields["assignee"]])
                   ELSE Put(f3, "assignee", [id |-> additionalFields["assignee"]])
              ELSE f3
        f5 == IF TruthyStr(additionalFields, "reporter")
              THEN Put(f4, "reporter", [id |-> additionalFields["reporter"]]) ELSE f4
        f6 == IF TruthyStr(additionalFields, "description")
              THEN Put(f5, "description", additionalFields["description"]) ELSE f5
        f7 == IF Has(additionalFields, "componentIds")
              THEN Put(f6, "components",
                       [n \in 1..Len(additionalFields["componentIds"]) |->
                           [id |-> additionalFields["componentIds"][n]]])
              ELSE f6
        f8 == IF /\ Has(additionalFields, "customFieldsUi")
                 /\ Has(additionalFields["customFieldsUi"], "customFieldsValues")
              THEN Assign(f7, CustomFieldsData(
                                  additionalFields["customFieldsUi"]["customFieldsValues"]))
              ELSE f7
    IN  f8

IssueCreateBegin ==
    /\ resource = "issue" /\ operation = "create"
    /\ pc = "loop" /\ i < length
    /\ LET additionalFields == getNodeParameter("additionalFields", i)
           qs1 == IF TruthyBool(additionalFields, "updateHistory")
                  THEN Put(qs, "updateHistory", additionalFields["updateHistory"])
                  ELSE qs
       IN  /\ fields' = CreateFields(i)
           /\ body' = EmptyMap
           /\ qs' = qs1
           /\ requests' = Append(requests, Request("GET", <<"/api/2/issuetype">>, EmptyMap, qs1))
    /\ pc' = "create_issuetype"
    /\ UNCHANGED <<resource, operation, jiraVersion, index, items, i, returnData, error, result>>

\* faulty variant: only a missing key counts, an empty key passes
CreateMissingParent_UndefinedOnly(idx, issueTypes) ==
    /\ ~Has(getNodeParameter("additionalFields", idx), "parentIssueKey")
    /\ getNodeParameter("issueType", idx) \in subtaskIssues(issueTypes)

\* !additionalFields.parentIssueKey && subtaskIssues.includes(issueTypeId)
CreateMissingParent(idx, issueTypes) ==
    /\ ~TruthyKey(getNodeParameter("additionalFields", idx), "parentIssueKey")
    /\ getNodeParameter("issueType", idx) \in subtaskIssues(issueTypes)

\* additionalFields.parentIssueKey && subtaskIssues.includes(issueTypeId)
CreateHasParent(idx, issueTypes) ==
    /\ TruthyKey(getNodeParameter("additionalFields", idx), "parentIssueKey")
    /\ getNodeParameter("issueType", idx) \in subtaskIssues(issueTypes)

\* faulty variant: the key is forwarded as typed
CreateParent_AsTyped(idx) ==
    [key |-> getNodeParameter("additionalFields", idx)["parentIssueKey"]]

\* fields.parent = { key: additionalFields.parentIssueKey.toUpperCase() }
CreateParent(idx) ==
    [key |-> ToUpperCase(getNodeParameter("additionalFields", idx)["parentIssueKey"])]

IssueCreateValidate ==
    /\ pc = "create_issuetype"
    /\ \E issueTypes \in IssueTypeResponses :
        LET answered == Respond("ok", issueTypes)
        IN  IF CreateMissingParent(i, issueTypes)
            THEN /\ error' = ParentKeyMsg
                 /\ pc' = "failed"
                 /\ requests' = answered
                 /\ UNCHANGED <<fields, body>>
            ELSE LET fields1 == IF CreateHasParent(i, issueTypes)
                                THEN Put(fields, "parent", CreateParent(i))
                                ELSE fields
                     body1 == Put(body, "fields", fields1)
                 IN  /\ fields' = fields1
                     /\ body' = body1
                     /\ requests' = Append(answered,
                                           Request("POST", <<"/api/2/issue">>, body1, EmptyMap))
                     /\ pc' = "create_post"
                     /\ UNCHANGED error
    /\ UNCHANGED <<resource, operation, jiraVersion, index, items, i, qs, returnData, result>>

IssueCreateEnd ==
    /\ pc = "create_post"
    /\ requests' = Respond("ok", <<>>)
    /\ returnData' = Append(returnData, [response |-> Len(requests)])
    /\ i' = i + 1
    /\ pc' = "loop"
    /\ UNCHANGED <<resource, operation, jiraVersion, index, items, qs, body, fields, error, result>>

----------------------------------------------------------------------------
(* issue: update *)

UpdateFields(idx) ==
    LET updateFields == getNodeParameter("updateFields", idx)
        f0 == EmptyMap
        f1 == IF TruthyStr(updateFields, "summary")
              THEN Put(f0, "summary", updateFields["summary"]) ELSE f0
        f2 == IF TruthyStr(updateFields, "issueType")
              THEN Put(f1, "issuetype", [id |-> updateFields["issueType"]]) ELSE f1
        f3 == IF Has(updateFields, "labels")
              THEN Put(f2, "labels", updateFields["labels"]) ELSE f2
        f4 == IF Has(updateFields, "serverLabels")
              THEN Put(f3, "labels", updateFields["serverLabels"]) ELSE f3
        f5 == IF TruthyStr(updateFields, "priority")
              THEN Put(f4, "priority", [id |-> updateFields["priority"]]) ELSE f4
        f6 == IF TruthyStr(updateFields, "assignee")
              THEN IF jiraVersion = "server"
                   THEN Put(f5, "assignee", [name |-> updateFields["assignee"]])
                   ELSE Put(f5, "assignee", [id |-> updateFields["assignee"]])
              ELSE f5
        f7 == IF TruthyStr(updateFields, "reporter")
              THEN Put(f6, "reporter", [id |-> updateFields["reporter"]]) ELSE f6
        f8 == IF TruthyStr(updateFields, "description")
              THEN Put(f7, "description", updateFields["description"]) ELSE f7
        f9 == IF /\ Has(updateFields, "customFieldsUi")
                 /\ Has(updateFields["customFieldsUi"], "customFieldsValues")
              THEN Assign(f8, CustomFieldsData(
                                  updateFields["customFieldsUi"]["customFieldsValues"]))
              ELSE f8
    IN  f9

IssueUpdateBegin ==
    /\ resource = "issue" /\ operation = "update"
    /\ pc = "loop" /\ i < length
    /\ fields' = UpdateFields(i)
    /\ body' = EmptyMap
    /\ requests' = Append(requests, Request("GET", <<"/api/2/issuetype">>, EmptyMap, EmptyMap))
    /\ pc' = "update_issuetype"
    /\ UNCHANGED <<resource, operation, jiraVersion, index, items, i, qs, returnData, error, result>>

\* faulty variant: the issue key is looked up among the sub-task type ids
UpdateMissingParent_WrongId(idx, issueTypes) ==
    LET updateFields == getNodeParameter("updateFields", idx)
    IN  /\ ~TruthyKey(updateFields, "parentIssueKey")
        /\ getNodeParameter("issueKey", idx) \in subtaskIssues(issueTypes)

\* !updateFields.parentIssueKey && subtaskIssues.includes(updateFields.issueType)
UpdateMissingParent(idx, issueTypes) ==
    LET updateFields == getNodeParameter("updateFields", idx)
    IN  /\ ~TruthyKey(updateFields, "parentIssueKey")
        /\ Has(updateFields, "issueType")
        /\ updateFields["issueType"] \in subtaskIssues(issueTypes)

\* updateFields.parentIssueKey && subtaskIssues.includes(updateFields.issueType)
UpdateHasParent(idx, issueTypes) ==
    LET updateFields == getNodeParameter("updateFields", idx)
    IN  /\ TruthyKey(updateFields, "parentIssueKey")
        /\ Has(updateFields, "issueType")
        /\ updateFields["issueType"] \in subtaskIssues(issueTypes)

\* fields.parent = { key: updateFields.parentIssueKey.toUpperCase() }
UpdateParent(idx) ==
    [key |-> ToUpperCase(getNodeParameter("updateFields", idx)["parentIssueKey"])]

IssueUpdateValidate ==
    /\ pc = "update_issuetype"
    /\ \E issueTypes \in IssueTypeResponses :
        LET updateFields == getNodeParameter("updateFields", i)
            issueKey == getNodeParameter("issueKey", i)
            answered == Respond("ok", issueTypes)
        IN  IF UpdateMissingParent(i, issueTypes)
            THEN /\ error' = ParentKeyMsg
                 /\ pc' = "failed"
                 /\ requests' = answered
                 /\ UNCHANGED <<fields, body>>
            ELSE LET fields1 == IF UpdateHasParent(i, issueTypes)
                                THEN Put(fields, "parent", UpdateParent(i))
                                ELSE fields
                     body1 == Put(body, "fields", fields1)
                 IN  /\ fields' = fields1
                     /\ body' = body1
                     /\ UNCHANGED error
                     /\ IF TruthyStr(updateFields, "statusId")
                        THEN /\ requests' = Append(answered,
                                    Request("POST", <<"/api/2/issue/", issueKey, "/transitions">>,
                                            [transition |-> [id |-> updateFields["statusId"]]],
                                            EmptyMap))
                             /\ pc' = "update_transition"
                        ELSE /\ requests' = Append(answered,
                                    Request("PUT", <<"/api/2/issue/", issueKey>>, body1, EmptyMap))
                             /\ pc' = "update_put"
    /\ UNCHANGED <<resource, operation, jiraVersion, index, items, i, qs, returnData, result>>

\* faulty variant: the record ends with the transition, the PUT is never issued
IssueUpdateTransitioned_NoPut ==
    /\ pc = "update_transition"
    /\ requests' = Respond("ok", <<>>)
    /\ returnData' = Append(returnData, [success |-> TRUE])
    /\ i' = i + 1
    /\ pc' = "loop"
    /\ UNCHANGED <<resource, operation, jiraVersion, index, items, qs, body, fields,
                   error, result>>

IssueUpdateTransitioned ==
    /\ pc = "update_transition"
    /\ requests' = Append(Respond("ok", <<>>),
                          Request("PUT", <<"/api/2/issue/", getNodeParameter("issueKey", i)>>,
                                  body, EmptyMap))
    /\ pc' = "update_put"
    /\ UNCHANGED <<resource, operation, jiraVersion, index, items, i, qs, body, fields,
                   returnData, error, result>>

IssueUpdateEnd ==
    /\ pc = "update_put"
    /\ requests' = Respond("ok", <<>>)
    /\ returnData' = Append(returnData, [success |-> TRUE])
    /\ i' = i + 1
    /\ pc' = "loop"
    /\ UNCHANGED <<resource, operation, jiraVersion, index, items, qs, body, fields, error, result>>

----------------------------------------------------------------------------
(* issue: get *)

IssueGetQs(q, idx) ==
    LET additionalFields == getNodeParameter("additionalFields", idx)
        q1 == IF TruthyStr(additionalFields, "fields")
              THEN Put(q, "fields", additionalFields["fields"]) ELSE q
        q2 == IF TruthyBool(additionalFields, "fieldsByKey")
              THEN Put(q1, "fieldsByKey", additionalFields["fieldsByKey"]) ELSE q1
        q3 == IF TruthyStr(additionalFields, "expand")
              THEN Put(q2, "expand", additionalFields["expand"]) ELSE q2
        q4 == IF TruthyStr(additionalFields, "properties")
              THEN Put(q3, "properties", additionalFields["properties"]) ELSE q3
        q5 == IF TruthyBool(additionalFields, "updateHistory")
              THEN Put(q4, "updateHistory", additionalFields["updateHistory"]) ELSE q4
    IN  q5

IssueGetBegin ==
    /\ resource = "issue" /\ operation = "get"
    /\ pc = "loop" /\ i < length
    /\ qs' = IssueGetQs(qs, i)
    /\ requests' = Append(requests,
                          Request("GET", <<"/api/2/issue/", getNodeParameter("issueKey", i)>>,
                                  EmptyMap, IssueGetQs(qs, i)))
    /\ pc' = "get_issue"
    /\ UNCHANGED <<resource, operation, jiraVersion, index, items, i, body, fields,
                   returnData, error, result>>

\* faulty variant: the response is put in front of the outputs collected so far
IssueGetEnd_Unshift ==
    /\ pc = "get_issue"
    /\ requests' = Respond("ok", <<>>)
    /\ returnData' = <<[response |-> Len(requests)]>> \o returnData
    /\ i' = i + 1
    /\ pc' = "loop"
    /\ UNCHANGED <<resource, operation, jiraVersion, index, items, qs, body, fields, error, result>>

IssueGetEnd ==
    /\ pc = "get_issue"
    /\ requests' = Respond("ok", <<>>)
    /\ returnData' = Append(returnData, [response |-> Len(requests)])
    /\ i' = i + 1
    /\ pc' = "loop"
    /\ UNCHANGED <<resource, operation, jiraVersion, index, items, qs, body, fields, error, result>>

----------------------------------------------------------------------------
(* issue: notify *)

\* the recipients built from the notificationRecipientsUi group
NotificationRecipients(ui) ==
    IF ~Has(ui, "notificationRecipientsValues") THEN EmptyMap
    ELSE LET v == ui["notificationRecipientsValues"]
             r1 == IF v.reporter THEN Put(EmptyMap, "reporter", v.reporter) ELSE EmptyMap
             r2 == IF v.assignee THEN Put(r1, "assignee", v.assignee) ELSE r1
             r3 == IF v.assignee THEN Put(r2, "watchers", v.watchers) ELSE r2
             r4 == IF v.voters THEN Put(r3, "watchers", v.voters) ELSE r3
             r5 == IF Len(v.users) > 0
                   THEN Put(r4, "users", [n \in 1..Len(v.users) |-> [accountId |-> v.users[n]]])
                   ELSE r4
             r6 == IF Len(v.groups) > 0
                   THEN Put(r5, "groups", [n \in 1..Len(v.groups) |-> [name |-> v.groups[n]]])
                   ELSE r5
         IN  r6

\* the restrictions built from the notificationRecipientsRestrictionsUi group
NotificationRecipientsRestrictions(ui) ==
    IF ~Has(ui, "notificationRecipientsRestrictionsValues") THEN EmptyMap
    ELSE LET v == ui["notificationRecipientsRestrictionsValues"]
         IN  IF Len(v.groups) > 0
             THEN Put(EmptyMap, "groups", [n \in 1..Len(v.groups) |-> [name |-> v.groups[n]]])
             ELSE EmptyMap

NotifyBody(idx) ==
    LET additionalFields == getNodeParameter("additionalFields", idx)
        jsonActive == getNodeParameter("jsonParameters", 0)
        b1 == IF TruthyStr(additionalFields, "textBody")
              THEN Put(EmptyMap, "textBody", additionalFields["textBody"]) ELSE EmptyMap
        b2 == IF TruthyStr(additionalFields, "htmlBody")
              THEN Put(b1, "htmlBody", additionalFields["htmlBody"]) ELSE b1
    IN  IF ~jsonActive
        THEN Put(Put(b2, "to",
                     JsObj(NotificationRecipients(
                         getNodeParameter("notificationRecipientsUi", idx)))),
                 "restrict",
                 JsObj(NotificationRecipientsRestrictions(
                     getNodeParameter("notificationRecipientsRestrictionsUi", idx))))
        ELSE LET notificationRecipientsJson ==
                     validateJSON(getNodeParameter("notificationRecipientsJson", idx))
                 notificationRecipientsRestrictionsJson ==
                     validateJSON(getNodeParameter("notificationRecipientsRestrictionsJson", idx))
                 b3 == IF Truthy(notificationRecipientsJson)
                       THEN Put(b2, "to", notificationRecipientsJson) ELSE b2
                 b4 == IF Truthy(notificationRecipientsRestrictionsJson)
                       THEN Put(b3, "restrict", notificationRecipientsRestrictionsJson) ELSE b3
             IN  b4

IssueNotifyBegin ==
    /\ resource = "issue" /\ operation = "notify"
    /\ pc = "loop" /\ i < length
    /\ body' = NotifyBody(i)
    /\ requests' = Append(requests,
                          Request("POST", <<"/api/2/issue/", getNodeParameter("issueKey", i),
                                            "/notify">>, NotifyBody(i), qs))
    /\ pc' = "notify_post"
    /\ UNCHANGED <<resource, operation, jiraVersion, index, items, i, qs, fields,
                   returnData, error, result>>

IssueNotifyEnd ==
    /\ pc = "notify_post"
    /\ requests' = Respond("ok", <<>>)
    /\ returnData' = Append(returnData, [response |-> Len(requests)])
    /\ i' = i + 1
    /\ pc' = "loop"
    /\ UNCHANGED <<resource, operation, jiraVersion, index, items, qs, body, fields, error, result>>

----------------------------------------------------------------------------
(* issueAttachment: add *)

\* const apiVersion = jiraVersion === 'server' ? '2' : '3'
apiVersion == IF jiraVersion = "server" THEN "2" ELSE "3"

\* this.helpers.getBinaryDataBuffer(i, binaryPropertyName): the bytes held under
\* the property; for a record without the property it resolves with no buffer
getBinaryDataBuffer(idx, name) ==
    IF Has(items[idx + 1].binary.props, name)
    THEN items[idx + 1].binary.props[name].data
    ELSE "undefined"

\* faulty variant: the upload is sent before the record's binary data is looked at
IssueAttachmentAdd_UploadFirst ==
    /\ resource = "issueAttachment" /\ operation = "add"
    /\ pc = "loop" /\ i < length
    /\ LET binaryPropertyName == getNodeParameter("binaryPropertyName", i)
           issueKey == getNodeParameter("issueKey", i)
           binary == items[i + 1].binary
           upload == RequestWith("POST",
                                 <<"/api/", apiVersion, "/issue/", issueKey, "/attachments">>,
                                 EmptyMap, EmptyMap, <<>>, EmptyMap)
       IN  /\ requests' = Append(requests, upload)
           /\ IF ~binary.defined
              THEN error' = NoBinaryMsg /\ pc' = "failed"
              ELSE IF ~Has(binary.props, binaryPropertyName)
              THEN error' = NoBinaryPropertyMsg /\ pc' = "failed"
              ELSE pc' = "attachment_post" /\ UNCHANGED error
    /\ UNCHANGED <<resource, operation, jiraVersion, index, items, i, qs, body, fields,
                   returnData, result>>

\* the binary checks and the upload; getBinaryDataBuffer reads the record's own
\* data and issues no request
IssueAttachmentAdd ==
    /\ resource = "issueAttachment" /\ operation = "add"
    /\ pc = "loop" /\ i < length
    /\ LET binaryPropertyName == getNodeParameter("binaryPropertyName", i)
           issueKey == getNodeParameter("issueKey", i)
           binary == items[i + 1].binary
       IN  IF ~binary.defined
           THEN /\ error' = NoBinaryMsg
                /\ pc' = "failed"
                /\ UNCHANGED requests
           ELSE IF ~Has(binary.props, binaryPropertyName)
           THEN /\ error' = NoBinaryPropertyMsg
                /\ pc' = "failed"
                /\ UNCHANGED requests
           ELSE /\ requests' = Append(requests,
                        RequestWith("POST",
                                    <<"/api/", apiVersion, "/issue/", issueKey, "/attachments">>,
                                    EmptyMap, EmptyMap, <<>>,
                                    [formData |-> [file |->
                                        [value |-> getBinaryDataBuffer(i, binaryPropertyName),
                                         options |-> [filename |->
                                             binary.props[binaryPropertyName].fileName]]]]))
                /\ pc' = "attachment_post"
                /\ UNCHANGED error
    /\ UNCHANGED <<resource, operation, jiraVersion, index, items, i, qs, body, fields,
                   returnData, result>>

IssueAttachmentAddEnd ==
    /\ pc = "attachment_post"
    /\ requests' = Respond("ok", <<[response |-> Len(requests)]>>)
    /\ returnData' = returnData \o <<[response |-> Len(requests)]>>
    /\ i' = i + 1
    /\ pc' = "loop"
    /\ UNCHANGED <<resource, operation, jiraVersion, index, items, qs, body, fields, error, result>>

----------------------------------------------------------------------------
(* issueComment: add, update *)

\* the structured document wrapping a plain-text comment (API version 3)
CommentDocument(comment) ==
    JsObj([type |-> "doc", version |-> 1,
           content |-> <<[type |-> "paragraph",
                          content |-> <<[type |-> "text", text |-> comment]>>]>>])

\* faulty variant: the document envelope is built whatever the Jira version
AddCommentBody_AlwaysDocument(idx) ==
    LET jsonParameters == getNodeParameter("jsonParameters", 0)
        options == getNodeParameter("options", idx)
        options1 == IF TruthyStr(options, "expand")
                    THEN Without(options, "expand") ELSE options
        body1 == Assign(EmptyMap, options1)
    IN  IF jsonParameters = FALSE
        THEN LET comment == getNodeParameter("comment", idx)
             IN  [error |-> "", body |-> Assign(body1, [body |-> CommentDocument(comment)])]
        ELSE LET commentJson == getNodeParameter("commentJson", idx)
                 json == validateJSON(commentJson)
             IN  IF IsEmptyString(json)
                 THEN [error |-> InvalidJsonMsg, body |-> body1]
                 ELSE [error |-> "", body |-> Assign(body1, [body |-> json])]

\* the body of issueComment add, or the validation error raised while building it
AddCommentBody(idx) ==
    LET jsonParameters == getNodeParameter("jsonParameters", 0)
        options == getNodeParameter("options", idx)
        options1 == IF TruthyStr(options, "expand")
                    THEN Without(options, "expand") ELSE options
        body1 == Assign(EmptyMap, options1)
    IN  IF jsonParameters = FALSE
        THEN LET comment == getNodeParameter("comment", idx)
             IN  IF jiraVersion = "server"
                 THEN [error |-> "", body |-> Assign(body1, [body |-> JsStr(comment)])]
                 ELSE [error |-> "", body |-> Assign(body1, [body |-> CommentDocument(comment)])]
        ELSE LET commentJson == getNodeParameter("commentJson", idx)
                 json == validateJSON(commentJson)
             IN  IF IsEmptyString(json)
                 THEN [error |-> InvalidJsonMsg, body |-> body1]
                 ELSE [error |-> "", body |-> Assign(body1, [body |-> json])]

IssueCommentAdd ==
    /\ resource = "issueComment" /\ operation = "add"
    /\ pc = "loop" /\ i < length
    /\ LET issueKey == getNodeParameter("issueKey", i)
           options == getNodeParameter("options", i)
           qs1 == IF TruthyStr(options, "expand")
                  THEN Put(qs, "expand", options["expand"]) ELSE qs
           built == AddCommentBody(i)
       IN  /\ qs' = qs1
           /\ body' = built.body
           /\ IF built.error # ""
              THEN /\ error' = built.error
                   /\ pc' = "failed"
                   /\ UNCHANGED requests
              ELSE /\ requests' = Append(requests,
                          Request("POST",
                                  <<"/api/", apiVersion, "/issue/", issueKey, "/comment">>,
                                  built.body, qs1))
                   /\ pc' = "comment_post"
                   /\ UNCHANGED error
    /\ UNCHANGED <<resource, operation, jiraVersion, index, items, i, fields, returnData, result>>

IssueCommentAddEnd ==
    /\ pc = "comment_post"
    /\ requests' = Respond("ok", <<>>)
    /\ returnData' = Append(returnData, [response |-> Len(requests)])
    /\ i' = i + 1
    /\ pc' = "loop"
    /\ UNCHANGED <<resource, operation, jiraVersion, index, items, qs, body, fields, error, result>>

\* faulty variant: the parse result is tested against undefined instead of ''
UpdateCommentBody_NoSentinel(idx) ==
    LET jsonParameters == getNodeParameter("jsonParameters", 0)
    IN  IF jsonParameters = FALSE
        THEN LET comment == getNodeParameter("comment", idx)
             IN  IF jiraVersion = "server"
                 THEN [error |-> "", body |-> Assign(EmptyMap, [body |-> JsStr(comment)])]
                 ELSE [error |-> "",
                       body |-> Assign(EmptyMap, [body |-> CommentDocument(comment)])]
        ELSE LET commentJson == getNodeParameter("commentJson", idx)
                 json == validateJSON(commentJson)
             IN  [error |-> "", body |-> Assign(EmptyMap, [body |-> json])]

\* the body of issueComment update, or the validation error raised while building it
UpdateCommentBody(idx) ==
    LET jsonParameters == getNodeParameter("jsonParameters", 0)
    IN  IF jsonParameters = FALSE
        THEN LET comment == getNodeParameter("comment", idx)
             IN  IF jiraVersion = "server"
                 THEN [error |-> "", body |-> Assign(EmptyMap, [body |-> JsStr(comment)])]
                 ELSE [error |-> "",
                       body |-> Assign(EmptyMap, [body |-> CommentDocument(comment)])]
        ELSE LET commentJson == getNodeParameter("commentJson", idx)
                 json == validateJSON(commentJson)
             IN  IF IsEmptyString(json)
                 THEN [error |-> InvalidJsonMsg, body |-> EmptyMap]
                 ELSE [error |-> "", body |-> Assign(EmptyMap, [body |-> json])]

IssueCommentUpdate ==
    /\ resource = "issueComment" /\ operation = "update"
    /\ pc = "loop" /\ i < length
    /\ LET issueKey == getNodeParameter("issueKey", i)
           commentId == getNodeParameter("commentId", i)
           options == getNodeParameter("options", i)
           qs1 == IF TruthyStr(options, "expand")
                  THEN Put(qs, "expand", options["expand"]) ELSE qs
           options1 == IF TruthyStr(options, "expand")
                       THEN Without(options, "expand") ELSE options
           qs2 == Assign(qs1, options1)
           built == UpdateCommentBody(i)
       IN  /\ qs' = qs2
           /\ body' = built.body
           /\ IF built.error # ""
              THEN /\ error' = built.error
                   /\ pc' = "failed"
                   /\ UNCHANGED requests
              ELSE /\ requests' = Append(requests,
                          Request("PUT",
                                  <<"/api/", apiVersion, "/issue/", issueKey,
                                    "/comment/", commentId>>,
                                  built.body, qs2))
                   /\ pc' = "comment_put"
                   /\ UNCHANGED error
    /\ UNCHANGED <<resource, operation, jiraVersion, index, items, i, fields, returnData, result>>

IssueCommentUpdateEnd ==
    /\ pc = "comment_put"
    /\ requests' = Respond("ok", <<>>)
    /\ returnData' = Append(returnData, [response |-> Len(requests)])
    /\ i' = i + 1
    /\ pc' = "loop"
    /\ UNCHANGED <<resource, operation, jiraVersion, index, items, qs, body, fields, error, result>>

----------------------------------------------------------------------------
(* issue: getAll, changelog; issueComment: getAll (returnAll = false) *)

GetAllBody(idx) ==
    LET options == getNodeParameter("options", idx)
        b1 == IF Has(options, "fields") /\ Len(options["fields"]) > 0
              THEN Put(EmptyMap, "fields", Split(options["fields"], ",")) ELSE EmptyMap
        b2 == IF TruthyStr(options, "jql") THEN Put(b1, "jql", options["jql"]) ELSE b1
        b3 == IF Has(options, "expand") /\ Len(options["expand"]) > 0
              THEN Put(b2, "expand", Split(options["expand"], ",")) ELSE b2
    IN  Put(b3, "maxResults", getNodeParameter("limit", idx))

IssueGetAll ==
    /\ resource = "issue" /\ operation = "getAll"
    /\ pc = "loop" /\ i < length
    /\ ~getNodeParameter("returnAll", i)
    /\ body' = GetAllBody(i)
    /\ requests' = Append(requests,
                          Request("POST", <<"/api/2/search">>, GetAllBody(i), EmptyMap))
    /\ pc' = "getall_search"
    /\ UNCHANGED <<resource, operation, jiraVersion, index, items, i, qs, fields,
                   returnData, error, result>>

IssueGetAllEnd ==
    /\ pc = "getall_search"
    /\ \E total \in Totals, pageSize \in PageSizes :
        LET responseData == ListPage("issues", total, pageSize)
        IN  /\ requests' = Respond("ok", responseData)
            /\ returnData' = returnData \o responseData["issues"]
    /\ i' = i + 1
    /\ pc' = "loop"
    /\ UNCHANGED <<resource, operation, jiraVersion, index, items, qs, body, fields,
                   error, result>>

IssueChangelog ==
    /\ resource = "issue" /\ operation = "changelog"
    /\ pc = "loop" /\ i < length
    /\ ~getNodeParameter("returnAll", i)
    /\ qs' = Put(qs, "maxResults", getNodeParameter("limit", i))
    /\ requests' = Append(requests,
                          Request("GET", <<"/api/2/issue/", getNodeParameter("issueKey", i),
                                           "/changelog">>,
                                  EmptyMap, Put(qs, "maxResults", getNodeParameter("limit", i))))
    /\ pc' = "changelog_get"
    /\ UNCHANGED <<resource, operation, jiraVersion, index, items, i, body, fields,
                   returnData, error, result>>

IssueChangelogEnd ==
    /\ pc = "changelog_get"
    /\ \E total \in Totals, pageSize \in PageSizes :
        LET responseData == ListPage("values", total, pageSize)
        IN  /\ requests' = Respond("ok", responseData)
            /\ returnData' = returnData \o responseData["values"]
    /\ i' = i + 1
    /\ pc' = "loop"
    /\ UNCHANGED <<resource, operation, jiraVersion, index, items, qs, body, fields,
                   error, result>>

IssueCommentGetAll ==
    /\ resource = "issueComment" /\ operation = "getAll"
    /\ pc = "loop" /\ i < length
    /\ ~getNodeParameter("returnAll", i)
    /\ LET qs1 == Assign(qs, getNodeParameter("options", i))
           body1 == Put(EmptyMap, "maxResults", getNodeParameter("limit", i))
       IN  /\ qs' = qs1
           /\ body' = body1
           /\ requests' = Append(requests,
                  Request("GET", <<"/api/", apiVersion, "/issue/",
                                   getNodeParameter("issueKey", i), "/comment">>,
                          body1, qs1))
    /\ pc' = "comments_get"
    /\ UNCHANGED <<resource, operation, jiraVersion, index, items, i, fields,
                   returnData, error, result>>

IssueCommentGetAllEnd ==
    /\ pc = "comments_get"
    /\ \E total \in Totals, pageSize \in PageSizes :
        LET responseData == ListPage("comments", total, pageSize)
        IN  /\ requests' = Respond("ok", responseData)
            /\ returnData' = returnData \o responseData["comments"]
    /\ i' = i + 1
    /\ pc' = "loop"
    /\ UNCHANGED <<resource, operation, jiraVersion, index, items, qs, body, fields,
                   error, result>>

----------------------------------------------------------------------------
(* issueAttachment: get, getAll, and the download of the contents *)

\* the metadata the server holds for an attachment
AttachmentMeta(id) ==
    [id |-> id, filename |-> "a.txt", mimeType |-> "text/plain",
     content |-> <<"/attachment/content/", id>>]

\* the attachments of an issue, as the answer to the pending request lists them
IssueAttachments(total) == [n \in 1..total |-> AttachmentMeta(<<Len(requests), n>>)]

\* the bytes the server keeps under a content reference
ContentOf(uri) == <<"bytes of", uri>>

prepareBinaryData(buffer, fileName, mimeType) ==
    [data |-> buffer, fileName |-> fileName, mimeType |-> mimeType]

\* responseData.slice(0, limit)
Slice(s, limit) == SubSeq(s, 1, Min(limit, Len(s)))

\* faulty variant: every download is addressed to the first entry's content
Download_FirstContent(rd, reqs, idx) ==
    /\ returnData' = [rd EXCEPT ![idx + 1] = Put(@, "binary", EmptyMap)]
    /\ requests' = Append(reqs,
           [RequestWith("GET", <<>>, EmptyMap, EmptyMap, rd[1].json.content,
                        [json |-> FALSE, encoding |-> JsNull])
               EXCEPT !.item = reqs[IF operation = "get" THEN idx + 1
                                    ELSE rd[idx + 1].json.id[1]].item])
    /\ index' = idx
    /\ pc' = "download"

\* returnData[index]['binary'] = {}; the GET of attachment.json.content; the
\* request is attributed to the record whose metadata request listed the entry
Download(rd, reqs, idx) ==
    /\ returnData' = [rd EXCEPT ![idx + 1] = Put(@, "binary", EmptyMap)]
    /\ requests' = Append(reqs,
           [RequestWith("GET", <<>>, EmptyMap, EmptyMap, rd[idx + 1].json.content,
                        [json |-> FALSE, encoding |-> JsNull])
               EXCEPT !.item = reqs[IF operation = "get" THEN idx + 1
                                    ELSE rd[idx + 1].json.id[1]].item])
    /\ index' = idx
    /\ pc' = "download"

\* faulty variant: the contents are downloaded whatever the download flag says
AfterMetadata_Always(rd, reqs) ==
    IF i + 1 = length /\ Len(rd) > 0
    THEN Download(rd, reqs, 0)
    ELSE /\ returnData' = rd
         /\ requests' = reqs
         /\ pc' = "loop"
         /\ UNCHANGED index

\* faulty variant: the contents of a record's entries are downloaded before the
\* metadata of the next record is requested
AfterMetadata_PerRecord(rd, reqs) ==
    IF getNodeParameter("download", 0) /\ Len(rd) > index
    THEN Download(rd, reqs, index)
    ELSE /\ returnData' = rd
         /\ requests' = reqs
         /\ pc' = "loop"
         /\ UNCHANGED index

\* after a metadata request: the next record, or, past the last record,
\* if (download) the loop over returnData.entries()
AfterMetadata(rd, reqs) ==
    IF i + 1 = length /\ getNodeParameter("download", 0) /\ Len(rd) > 0
    THEN Download(rd, reqs, 0)
    ELSE /\ returnData' = rd
         /\ requests' = reqs
         /\ pc' = "loop"
         /\ UNCHANGED index

IssueAttachmentGet ==
    /\ resource = "issueAttachment" /\ operation = "get"
    /\ pc = "loop" /\ i < length
    /\ requests' = Append(requests,
           Request("GET", <<"/api/", apiVersion, "/attachment/",
                            getNodeParameter("attachmentId", i)>>, EmptyMap, qs))
    /\ pc' = "attachment_get"
    /\ UNCHANGED <<resource, operation, jiraVersion, index, items, i, qs, body, fields,
                   returnData, error, result>>

IssueAttachmentGetEnd ==
    /\ pc = "attachment_get"
    /\ LET responseData == AttachmentMeta(getNodeParameter("attachmentId", i))
       IN  AfterMetadata(Append(returnData, [json |-> responseData]),
                         Respond("ok", responseData))
    /\ i' = i + 1
    /\ UNCHANGED <<resource, operation, jiraVersion, items, qs, body, fields,
                   error, result>>

IssueAttachmentGetAll ==
    /\ resource = "issueAttachment" /\ operation = "getAll"
    /\ pc = "loop" /\ i < length
    /\ requests' = Append(requests,
           Request("GET", <<"/api/2/issue/", getNodeParameter("issueKey", i)>>,
                   EmptyMap, qs))
    /\ pc' = "attachments_get"
    /\ UNCHANGED <<resource, operation, jiraVersion, index, items, i, qs, body, fields,
                   returnData, error, result>>

IssueAttachmentGetAllEnd ==
    /\ pc = "attachments_get"
    /\ \E total \in Totals :
        LET attachment == IssueAttachments(total)
            responseData == IF getNodeParameter("returnAll", i) = FALSE
                            THEN Slice(attachment, getNodeParameter("limit", i))
                            ELSE attachment
        IN  AfterMetadata(returnData \o [n \in 1..Len(responseData) |->
                                             [json |-> responseData[n]]],
                          Respond("ok", [fields |-> [attachment |-> attachment]]))
    /\ i' = i + 1
    /\ UNCHANGED <<resource, operation, jiraVersion, items, qs, body, fields,
                   error, result>>

\* the content arrived: returnData[index]['binary'][binaryPropertyName] = ...,
\* then the next entry of returnData.entries()
IssueAttachmentDownloaded ==
    /\ pc = "download"
    /\ LET binaryPropertyName == getNodeParameter("binaryProperty", 0)
           attachment == returnData[index + 1]
           buffer == ContentOf(requests[Len(requests)].uri)
           rd == [returnData EXCEPT ![index + 1].binary =
                      Put(@, binaryPropertyName,
                          prepareBinaryData(buffer, attachment.json.filename,
                                            attachment.json.mimeType))]
       IN  IF index + 1 < Len(returnData)
           THEN Download(rd, Respond("ok", buffer), index + 1)
           ELSE /\ returnData' = rd
                /\ requests' = Respond("ok", buffer)
                /\ index' = index + 1
                /\ pc' = "loop"
    /\ UNCHANGED <<resource, operation, jiraVersion, items, i, qs, body, fields,
                   error, result>>

----------------------------------------------------------------------------
(* issue: delete; issueAttachment: remove; issueComment: get, remove *)

IssueDelete ==
    /\ resource = "issue" /\ operation = "delete"
    /\ pc = "loop" /\ i < length
    /\ LET qs1 == Put(qs, "deleteSubtasks", getNodeParameter("deleteSubtasks", i))
       IN  /\ qs' = qs1
           /\ requests' = Append(requests,
                  Request("DELETE", <<"/api/2/issue/", getNodeParameter("issueKey", i)>>,
                          EmptyMap, qs1))
    /\ pc' = "delete_issue"
    /\ UNCHANGED <<resource, operation, jiraVersion, index, items, i, body, fields,
                   returnData, error, result>>

IssueAttachmentRemove ==
    /\ resource = "issueAttachment" /\ operation = "remove"
    /\ pc = "loop" /\ i < length
    /\ requests' = Append(requests,
           Request("DELETE", <<"/api/", apiVersion, "/attachment/",
                               getNodeParameter("attachmentId", i)>>, EmptyMap, qs))
    /\ pc' = "attachment_delete"
    /\ UNCHANGED <<resource, operation, jiraVersion, index, items, i, qs, body, fields,
                   returnData, error, result>>

IssueCommentRemove ==
    /\ resource = "issueComment" /\ operation = "remove"
    /\ pc = "loop" /\ i < length
    /\ requests' = Append(requests,
           Request("DELETE", <<"/api/", apiVersion, "/issue/",
                               getNodeParameter("issueKey", i), "/comment/",
                               getNodeParameter("commentId", i)>>, EmptyMap, qs))
    /\ pc' = "comment_delete"
    /\ UNCHANGED <<resource, operation, jiraVersion, index, items, i, qs, body, fields,
                   returnData, error, result>>

\* the DELETE was answered: returnData.push({ success: true })
DeleteEnd ==
    /\ pc \in {"delete_issue", "attachment_delete", "comment_delete", "user_delete"}
    /\ requests' = Respond("ok", <<>>)
    /\ returnData' = Append(returnData, [success |-> TRUE])
    /\ i' = i + 1
    /\ pc' = "loop"
    /\ UNCHANGED <<resource, operation, jiraVersion, index, items, qs, body, fields,
                   error, result>>

IssueCommentGet ==
    /\ resource = "issueComment" /\ operation = "get"
    /\ pc = "loop" /\ i < length
    /\ LET qs1 == Assign(qs, getNodeParameter("options", i))
       IN  /\ qs' = qs1
           /\ requests' = Append(requests,
                  Request("GET", <<"/api/", apiVersion, "/issue/",
                                   getNodeParameter("issueKey", i), "/comment/",
                                   getNodeParameter("commentId", i)>>, EmptyMap, qs1))
    /\ pc' = "comment_get"
    /\ UNCHANGED <<resource, operation, jiraVersion, index, items, i, body, fields,
                   returnData, error, result>>

----------------------------------------------------------------------------
(* user: create, delete, get *)

\* Array.prototype.join
RECURSIVE Join(_, _)
Join(s, sep) ==
    IF Len(s) <= 1 THEN s ELSE <<s[1], sep>> \o Join(Tail(s), sep)

UserCreate ==
    /\ resource = "user" /\ operation = "create"
    /\ pc = "loop" /\ i < length
    /\ requests' = Append(requests,
           Request("POST", <<"/api/", apiVersion, "/user">>,
                   Assign([name |-> getNodeParameter("username", i),
                           emailAddress |-> getNodeParameter("emailAddress", i),
                           displayName |-> getNodeParameter("displayName", i)],
                          getNodeParameter("additionalFields", i)),
                   EmptyMap))
    /\ pc' = "user_post"
    /\ UNCHANGED <<resource, operation, jiraVersion, index, items, i, qs, body, fields,
                   returnData, error, result>>

UserDelete ==
    /\ resource = "user" /\ operation = "delete"
    /\ pc = "loop" /\ i < length
    /\ LET qs1 == Put(qs, "accountId", getNodeParameter("accountId", i))
       IN  /\ qs' = qs1
           /\ requests' = Append(requests,
                  Request("DELETE", <<"/api/", apiVersion, "/user">>, EmptyMap, qs1))
    /\ pc' = "user_delete"
    /\ UNCHANGED <<resource, operation, jiraVersion, index, items, i, body, fields,
                   returnData, error, result>>

UserGet ==
    /\ resource = "user" /\ operation = "get"
    /\ pc = "loop" /\ i < length
    /\ LET additionalFields == getNodeParameter("additionalFields", i)
           qs1 == Put(qs, "accountId", getNodeParameter("accountId", i))
           qs2 == IF Has(additionalFields, "expand")
                  THEN Put(qs1, "expand", Join(additionalFields["expand"], ","))
                  ELSE qs1
       IN  /\ qs' = qs2
           /\ requests' = Append(requests,
                  Request("GET", <<"/api/", apiVersion, "/user">>, EmptyMap, qs2))
    /\ pc' = "user_get"
    /\ UNCHANGED <<resource, operation, jiraVersion, index, items, i, body, fields,
                   returnData, error, result>>

\* the response arrived: returnData.push(responseData)
ResponseEnd ==
    /\ pc \in {"comment_get", "user_post", "user_get"}
    /\ requests' = Respond("ok", <<>>)
    /\ returnData' = Append(returnData, [response |-> Len(requests)])
    /\ i' = i + 1
    /\ pc' = "loop"
    /\ UNCHANGED <<resource, operation, jiraVersion, index, items, qs, body, fields,
                   error, result>>

----------------------------------------------------------------------------
(* failures and return *)

\* faulty variant: a request that fails for the first time is issued again
RequestFails_Retry ==
    /\ Awaiting
    /\ LET r == requests[Len(requests)]
           again == [r EXCEPT !.status = "pending"]
       IN  IF \A n \in 1..(Len(requests) - 1) :
                  [requests[n] EXCEPT !.status = "pending"] # again
           THEN /\ requests' = Append(Respond("failed", <<>>), again)
                /\ UNCHANGED <<error, pc>>
           ELSE /\ requests' = Respond("failed", <<>>)
                /\ error' = RequestFailedMsg
                /\ pc' = "failed"
    /\ UNCHANGED <<resource, operation, jiraVersion, index, items, i, qs, body, fields, returnData, result>>

\* the awaited request rejects: the exception leaves execute (no try/catch)
RequestFails ==
    /\ Awaiting
    /\ requests' = Respond("failed", <<>>)
    /\ error' = RequestFailedMsg
    /\ pc' = "failed"
    /\ UNCHANGED <<resource, operation, jiraVersion, index, items, i, qs, body, fields, returnData, result>>

\* return [this.helpers.returnJsonArray(returnData)]
Return ==
    /\ pc = "loop" /\ i = length
    /\ result' = returnData
    /\ pc' = "done"
    /\ UNCHANGED <<resource, operation, jiraVersion, index, items, i, qs, body, fields, requests,
                   returnData, error>>

----------------------------------------------------------------------------

Init ==
    /\ \E ro \in Operations :
        /\ resource = ro[1]
        /\ operation = ro[2]
        /\ items \in SeqsUpTo(RecordsOf(ro[1], ro[2]), MaxItems)
    /\ jiraVersion \in JiraVersions
    /\ i = 0
    /\ index = 0
    /\ pc = "loop"
    /\ qs = EmptyMap
    /\ body = EmptyMap
    /\ fields = EmptyMap
    /\ requests = <<>>
    /\ returnData = <<>>
    /\ error = ""
    /\ result = <<>>

Next ==
    \/ IssueCreateBegin
    \/ IssueCreateValidate
    \/ IssueCreateEnd
    \/ IssueUpdateBegin
    \/ IssueUpdateValidate
    \/ IssueUpdateTransitioned
    \/ IssueUpdateEnd
    \/ IssueGetBegin
    \/ IssueGetEnd
    \/ IssueNotifyBegin
    \/ IssueNotifyEnd
    \/ IssueAttachmentAdd
    \/ IssueAttachmentAddEnd
    \/ IssueCommentAdd
    \/ IssueCommentAddEnd
    \/ IssueCommentUpdate
    \/ IssueCommentUpdateEnd
    \/ IssueGetAll
    \/ IssueGetAllEnd
    \/ IssueChangelog
    \/ IssueChangelogEnd
    \/ IssueCommentGetAll
    \/ IssueCommentGetAllEnd
    \/ IssueAttachmentGet
    \/ IssueAttachmentGetEnd
    \/ IssueAttachmentGetAll
    \/ IssueAttachmentGetAllEnd
    \/ IssueAttachmentDownloaded
    \/ IssueDelete
    \/ IssueAttachmentRemove
    \/ IssueCommentRemove
    \/ DeleteEnd
    \/ IssueCommentGet
    \/ UserCreate
    \/ UserDelete
    \/ UserGet
    \/ ResponseEnd
    \/ RequestFails
    \/ Return

Spec == Init /\ [][Next]_vars

----------------------------------------------------------------------------
(* Vocabulary of the properties *)

RequestIds == 1..Len(requests)

RecordOf(r) == items[r.item + 1]

IsIssueTypeLookup(r) == r.method = "GET" /\ r.path = <<"/api/2/issuetype">>

IsIssuePost(r) == r.method = "POST" /\ r.path = <<"/api/2/issue">>

IsIssuePut(r) == r.method = "PUT" /\ Len(r.path) = 2 /\ r.path[1] = "/api/2/issue/"

IsMutating(r) == r.method \in {"POST", "PUT", "DELETE"}

\* the type id is reported with subtask = true by the answered lookup r
ReportedSubtask(r, id) ==
    /\ IsIssueTypeLookup(r) /\ r.status = "ok"
    /\ \E m \in 1..Len(r.data) : r.data[m].id = id /\ r.data[m].subtask

ReportedNotSubtask(r, id) ==
    /\ IsIssueTypeLookup(r) /\ r.status = "ok"
    /\ \A m \in 1..Len(r.data) : r.data[m].id = id => ~r.data[m].subtask

NoParentKey(m) == ~Has(m, "parentIssueKey") \/ m["parentIssueKey"] = <<>>

\* record k has been taken up by the loop
Processed(k) == k < i \/ (k = i /\ pc # "loop")

Terminated == pc \in {"done", "failed"}

IssueCreate == resource = "issue" /\ operation = "create"
IssueUpdate == resource = "issue" /\ operation = "update"
IssueGet == resource = "issue" /\ operation = "get"
IssueNotify == resource = "issue" /\ operation = "notify"
CommentAdd == resource = "issueComment" /\ operation = "add"
CommentUpdate == resource = "issueComment" /\ operation = "update"
AttachmentAdd == resource = "issueAttachment" /\ operation = "add"

\* the raw-JSON mode execute runs in
JsonMode == items[1].jsonParameters

\* u is s with every lower-case letter replaced by its capital
LowerCase == {"a", "b"}
CapitalOf == [a |-> "A", b |-> "B"]
UpperCased(s, u) ==
    /\ Len(u) = Len(s)
    /\ \A n \in 1..Len(s) :
        u[n] = IF s[n] \in LowerCase THEN CapitalOf[s[n]] ELSE s[n]

SameJs(a, b) == a.t = b.t /\ a.v = b.v

----------------------------------------------------------------------------
(* Properties *)

\* C1: issue create: a record whose issueType the lookup GET /api/2/issuetype
\* reports as sub-task and that carries no parentIssueKey makes execute fail with
\* the parent-key validation error, and no POST /api/2/issue is issued for it.
C1_CreateSubtaskNeedsParent ==
    IssueCreate =>
        \A n \in RequestIds :
            LET r == requests[n] IN
            (/\ ReportedSubtask(r, RecordOf(r).issueType)
             /\ NoParentKey(RecordOf(r).additionalFields))
            => /\ pc = "failed" /\ error = ParentKeyMsg /\ i = r.item
               /\ \A m \in RequestIds :
                      requests[m].item = r.item => ~IsIssuePost(requests[m])

C1_Witness ==
    /\ IssueCreate /\ pc = "failed" /\ error = ParentKeyMsg /\ i = 1
    /\ \E n \in RequestIds : requests[n].item = 0 /\ IsIssuePost(requests[n])

\* C2: issue update: a record whose updateFields.issueType the lookup reports as
\* sub-task and that carries no parentIssueKey makes execute fail validation, and
\* neither the transitions POST nor the PUT of that record is issued.
C2_UpdateSubtaskNeedsParent ==
    IssueUpdate =>
        \A n \in RequestIds :
            LET r == requests[n]
                updateFields == RecordOf(r).updateFields
            IN  (/\ Has(updateFields, "issueType")
                 /\ ReportedSubtask(r, updateFields["issueType"])
                 /\ NoParentKey(updateFields))
                => /\ pc = "failed" /\ error = ParentKeyMsg /\ i = r.item
                   /\ \A m \in RequestIds :
                          requests[m].item = r.item => ~IsMutating(requests[m])

C2_Witness ==
    /\ IssueUpdate /\ pc = "failed" /\ error = ParentKeyMsg
    /\ TruthyStr(items[i + 1].updateFields, "statusId")

\* C3: on issue create and update, a sub-task record with a parentIssueKey passes
\* validation and its body has fields.parent.key equal to the upper-cased key; a
\* record whose type is not sub-task-like carries no fields.parent, whether or not
\* a parentIssueKey was supplied.
C3_ParentKeyUpperCased ==
    (IssueCreate \/ IssueUpdate) =>
        \A n \in RequestIds :
            LET r == requests[n]
                given == IF IssueCreate THEN RecordOf(r).additionalFields
                         ELSE RecordOf(r).updateFields
                typeId == IF IssueCreate THEN RecordOf(r).issueType
                          ELSE IF Has(given, "issueType") THEN given["issueType"]
                          ELSE "none"
                Sent(m) == /\ requests[m].item = r.item
                           /\ IsIssuePost(requests[m]) \/ IsIssuePut(requests[m])
            IN  /\ (ReportedSubtask(r, typeId) /\ ~NoParentKey(given))
                   => /\ ~(pc = "failed" /\ error = ParentKeyMsg /\ i = r.item)
                      /\ \E m \in RequestIds : m > n /\ requests[m].item = r.item
                      /\ \A m \in RequestIds :
                             Sent(m) =>
                                /\ Has(requests[m].body["fields"], "parent")
                                /\ UpperCased(given["parentIssueKey"],
                                              requests[m].body["fields"]["parent"].key)
                /\ ReportedNotSubtask(r, typeId)
                   => \A m \in RequestIds :
                          Sent(m) => ~Has(requests[m].body["fields"], "parent")

C3_Witness ==
    /\ IssueUpdate /\ pc = "update_put"
    /\ Has(requests[Len(requests)].body["fields"], "parent")
    /\ requests[Len(requests)].body["fields"]["parent"].key = <<"A", "B">>

\* C4: issueComment add and update in raw-JSON mode: a record whose commentJson is
\* not valid JSON makes execute fail with 'Document Format must be a valid JSON',
\* and no comment POST or PUT is issued for that record.
C4_InvalidCommentJsonRejected ==
    ((CommentAdd \/ CommentUpdate) /\ JsonMode) =>
        \A k \in 0..(length - 1) :
            items[k + 1].commentJson \in InvalidJson =>
                /\ \A n \in RequestIds : requests[n].item # k
                /\ Processed(k) => pc = "failed" /\ error = InvalidJsonMsg /\ i = k

C4_Witness ==
    /\ CommentUpdate /\ JsonMode /\ pc = "failed" /\ error = InvalidJsonMsg /\ i = 1
    /\ items[2].commentJson = "{"

\* C5: issue notify in raw-JSON mode: a record whose notificationRecipientsJson or
\* notificationRecipientsRestrictionsJson is not valid JSON makes the operation
\* fail with a validation error, and no notify POST is issued for that record.
C5_InvalidNotifyJsonRejected ==
    (IssueNotify /\ JsonMode) =>
        \A k \in 0..(length - 1) :
            (\/ items[k + 1].notificationRecipientsJson \in InvalidJson
             \/ items[k + 1].notificationRecipientsRestrictionsJson \in InvalidJson)
            => /\ \A n \in RequestIds : requests[n].item # k
               /\ Processed(k) => pc = "failed" /\ error \in ValidationErrors /\ i = k

\* C6: in raw-JSON mode every syntactically valid JSON input is forwarded as parsed:
\* as body.body of the comment POST/PUT, as body.to and body.restrict of the notify
\* POST.
C6_ValidJsonForwarded ==
    /\ ((CommentAdd \/ CommentUpdate) /\ JsonMode) =>
          \A k \in 0..(length - 1) :
              (Processed(k) /\ items[k + 1].commentJson \in ValidJson) =>
                  \E n \in RequestIds :
                      /\ requests[n].item = k
                      /\ Has(requests[n].body, "body")
                      /\ SameJs(requests[n].body["body"],
                                JSONParse(items[k + 1].commentJson))
    /\ (IssueNotify /\ JsonMode) =>
          \A n \in RequestIds :
              LET r == requests[n] IN
              /\ RecordOf(r).notificationRecipientsJson \in ValidJson =>
                    /\ Has(r.body, "to")
                    /\ SameJs(r.body["to"],
                              JSONParse(RecordOf(r).notificationRecipientsJson))
              /\ RecordOf(r).notificationRecipientsRestrictionsJson \in ValidJson =>
                    /\ Has(r.body, "restrict")
                    /\ SameJs(r.body["restrict"],
                              JSONParse(RecordOf(r).notificationRecipientsRestrictionsJson))

\* C7: issueComment add and update with jsonParameters = false: body.body is the
\* document {type doc, version 1, content [paragraph [text comment]]} on cloud and
\* the plain comment string on server, the same for both operations.
C7_CommentEnvelope ==
    ((CommentAdd \/ CommentUpdate) /\ ~JsonMode) =>
        \A n \in RequestIds :
            LET r == requests[n]
                comment == RecordOf(r).comment
            IN  /\ Has(r.body, "body")
                /\ IF jiraVersion = "server"
                   THEN r.body["body"].t = "string" /\ r.body["body"].v = comment
                   ELSE /\ r.body["body"].t = "object"
                        /\ r.body["body"].v =
                               [type |-> "doc", version |-> 1,
                                content |-> <<[type |-> "paragraph",
                                               content |-> <<[type |-> "text",
                                                              text |-> comment]>>]>>]

C7_Witness ==
    /\ CommentAdd /\ ~JsonMode /\ jiraVersion = "cloud" /\ pc = "comment_post"
    /\ requests[Len(requests)].body["body"].t = "object"
    /\ requests[Len(requests)].body["body"].v.content[1].content[1].text = "hello"

\* the query-string key is supplied by the record's own fields
SuppliesQs(rec, key) ==
    CASE IssueGet -> (\/ key = "expand" /\ TruthyStr(rec.additionalFields, key)
                      \/ key = "updateHistory" /\ TruthyBool(rec.additionalFields, key))
      [] IssueCreate -> key = "updateHistory" /\ TruthyBool(rec.additionalFields, key)
      [] CommentAdd \/ CommentUpdate -> Has(rec.options, key)
      [] resource = "issueComment" /\ operation \in {"get", "getAll"} ->
             Has(rec.options, key)
      [] resource = "issue" /\ operation = "changelog" -> key = "maxResults"
      [] resource = "issue" /\ operation = "delete" -> key = "deleteSubtasks"
      [] resource = "user" /\ operation = "delete" -> key = "accountId"
      [] resource = "user" /\ operation = "get" ->
             key = "accountId" \/ (key = "expand" /\ Has(rec.additionalFields, key))
      [] OTHER -> FALSE

\* C8: the query string sent with the requests of a record holds only keys that
\* this record's own fields supply; nothing set by an earlier record is in it.
C8_QueryStringPerRecord ==
    \A n \in RequestIds :
        \A key \in DOMAIN requests[n].qs : SuppliesQs(RecordOf(requests[n]), key)

\* C9: a failure on one record does not stop the batch: when execute has ended,
\* every record has been processed and the outputs of the records that did not
\* fail are returned.
C9_RecordIndependence ==
    Terminated =>
        /\ \A k \in 0..(length - 1) : Processed(k)
        /\ result = returnData

\* C10 as stated: a validation error of a record is raised before any request of
\* that record has been issued.
C10_ValidationBeforeAnyRequest ==
    (pc = "failed" /\ error \in ValidationErrors) =>
        \A n \in RequestIds : requests[n].item # i

\* C10 amended: a validation error of a record is raised before any mutating
\* request of that record; malformed comment JSON and missing binary data are
\* raised before any request at all, and the sub-task error after exactly one
\* request of the record, the lookup GET /api/2/issuetype.
C10_ValidationBeforeMutation ==
    (pc = "failed" /\ error \in ValidationErrors) =>
        LET own == {n \in RequestIds : requests[n].item = i}
        IN  /\ \A n \in own : ~IsMutating(requests[n])
            /\ error # ParentKeyMsg => own = {}
            /\ error = ParentKeyMsg =>
                  /\ Cardinality(own) = 1
                  /\ \A n \in own : IsIssueTypeLookup(requests[n])

C10_Witness ==
    /\ AttachmentAdd /\ pc = "failed" /\ error = NoBinaryPropertyMsg /\ i = 1
    /\ \E n \in RequestIds : requests[n].item = 0 /\ IsMutating(requests[n])

----------------------------------------------------------------------------
(* list operations *)

IsListOperation ==
    \/ resource = "issue" /\ operation \in {"getAll", "changelog"}
    \/ resource \in {"issueComment", "issueAttachment"} /\ operation = "getAll"

\* the answered request n asked the server for a list of entries
IsListRequest(n) ==
    IsListOperation /\ requests[n].uri = <<>> /\ requests[n].status = "ok"

\* the number of entries the server holds for the list request n
Available(n) ==
    IF resource = "issueAttachment" THEN Len(requests[n].data.fields.attachment)
    ELSE requests[n].data.total

\* the output records that stem from the answer to request n
OutputsOf(n) ==
    {k \in 1..Len(returnData) :
        IF resource = "issueAttachment" THEN returnData[k].json.id[1] = n
        ELSE returnData[k].id[1] = n}

\* C11: limit truncation: with returnAll = false and limit L a list operation
\* yields min(L, total available) output records for an input record, whatever
\* page size the server applies
C11_LimitTruncation ==
    \A n \in RequestIds :
        IsListRequest(n) /\ ~RecordOf(requests[n]).returnAll
            => Cardinality(OutputsOf(n))
                   = Min(RecordOf(requests[n]).limit, Available(n))

----------------------------------------------------------------------------
(* attachments and their contents *)

AttachmentFetch == resource = "issueAttachment" /\ operation \in {"get", "getAll"}

\* the download flag and the output property the node runs with
DownloadOn == getNodeParameter("download", 0)
BinaryProperty == getNodeParameter("binaryProperty", 0)

IsDownload(r) == r.uri # <<>>

\* the requests for contents, in the order they were issued
Downloads == SelectSeq(requests, IsDownload)

\* the metadata entries the answered request n yields for its record
EntriesOf(n) ==
    IF IsDownload(requests[n]) \/ requests[n].status # "ok" THEN <<>>
    ELSE IF operation = "get" THEN <<requests[n].data>>
    ELSE LET attachment == requests[n].data.fields.attachment
             rec == RecordOf(requests[n])
         IN  IF rec.returnAll THEN attachment
             ELSE SubSeq(attachment, 1, Min(rec.limit, Len(attachment)))

\* the metadata entries of the requests 1..n, in order
RECURSIVE MetadataUpTo(_)
MetadataUpTo(n) == IF n = 0 THEN <<>> ELSE MetadataUpTo(n - 1) \o EntriesOf(n)

Metadata == MetadataUpTo(Len(requests))

\* C12: issueAttachment get/getAll with download = true: N metadata entries give
\* exactly N output records; each keeps its metadata under json and carries,
\* under the binary property, the payload fetched by one secondary GET addressed
\* by that same entry's content reference
C12_DownloadedAttachments ==
    (AttachmentFetch /\ pc = "done" /\ DownloadOn) =>
        /\ Len(result) = Len(Metadata)
        /\ Len(Downloads) = Len(Metadata)
        /\ \A k \in 1..Len(Metadata) :
            /\ result[k].json = Metadata[k]
            /\ DOMAIN result[k] = {"json", "binary"}
            /\ DOMAIN result[k].binary = {BinaryProperty}
            /\ Downloads[k].method = "GET"
            /\ Downloads[k].uri = Metadata[k].content
            /\ Downloads[k].status = "ok"
            /\ result[k].binary[BinaryProperty]
                   = prepareBinaryData(Downloads[k].data, Metadata[k].filename,
                                       Metadata[k].mimeType)

C12_Witness ==
    /\ AttachmentFetch /\ operation = "getAll" /\ pc = "done" /\ DownloadOn
    /\ BinaryProperty = "file"
    /\ Len(result) = 3
    /\ Len(Downloads) = 3

\* C13: with download = false no secondary fetch is issued and no output record
\* has a binary key; with download = true the secondary fetch of an entry is
\* issued only after the metadata request that listed it was answered, and at
\* most once per entry (exactly once when the run completes)
C13_SecondaryFetch ==
    AttachmentFetch =>
        /\ ~DownloadOn =>
               /\ Downloads = <<>>
               /\ \A k \in 1..Len(returnData) : DOMAIN returnData[k] = {"json"}
        /\ DownloadOn =>
               /\ Len(Downloads) <= Len(Metadata)
               /\ \A n \in RequestIds : IsDownload(requests[n]) =>
                      LET k == Len(SelectSeq(SubSeq(requests, 1, n), IsDownload))
                      IN  /\ requests[n].uri = Metadata[k].content
                          /\ Len(MetadataUpTo(n - 1)) >= k
               /\ pc = "done" => Len(Downloads) = Len(Metadata)

C13_Witness ==
    /\ AttachmentFetch /\ DownloadOn /\ pc = "download"
    /\ length = 2
    /\ Len(Downloads) = 2
    /\ Downloads[1].status = "ok"

----------------------------------------------------------------------------
(* sparse update *)

\* the record supplied a non-empty value for the key of body.fields
SuppliedNonEmpty(updateFields, key) ==
    CASE key = "summary" -> TruthyStr(updateFields, "summary")
      [] key = "issuetype" -> TruthyStr(updateFields, "issueType")
      [] key = "labels" ->
             \/ Has(updateFields, "labels") /\ Len(updateFields["labels"]) > 0
             \/ Has(updateFields, "serverLabels") /\ Len(updateFields["serverLabels"]) > 0
      [] key = "priority" -> TruthyStr(updateFields, "priority")
      [] key = "assignee" -> TruthyStr(updateFields, "assignee")
      [] key = "reporter" -> TruthyStr(updateFields, "reporter")
      [] key = "description" -> TruthyStr(updateFields, "description")
      [] key = "parent" -> TruthyKey(updateFields, "parentIssueKey")
      [] OTHER ->
             /\ Has(updateFields, "customFieldsUi")
             /\ Has(updateFields["customFieldsUi"], "customFieldsValues")
             /\ LET customFields == updateFields["customFieldsUi"]["customFieldsValues"]
                IN  \E n \in 1..Len(customFields) :
                        /\ customFields[n].fieldId = key
                        /\ customFields[n].fieldValue # ""

\* C14: sparse update: body.fields of the PUT of issue update holds a key only if
\* the record supplied a non-empty value for it
C14_SparseUpdate ==
    \A n \in RequestIds :
        IsIssuePut(requests[n]) =>
            \A key \in DOMAIN requests[n].body.fields :
                SuppliedNonEmpty(RecordOf(requests[n]).updateFields, key)

----------------------------------------------------------------------------
(* per-record inputs *)

\* the input record an output record of issueAttachment get/getAll stems from
OutputRecord(k) ==
    IF operation = "get" THEN items[k]
    ELSE RecordOf(requests[returnData[k].json.id[1]])

\* C15: per-record inputs: every record is handled according to its own values of
\* the mode selectors: a comment is sent as parsed JSON exactly when its own
\* jsonParameters is set, and an attachment carries its content exactly when its
\* own record sets download, under that record's binaryProperty
C15_PerRecordInputs ==
    /\ (CommentAdd \/ CommentUpdate) =>
           \A n \in RequestIds :
               LET r == requests[n]
                   rec == RecordOf(r)
               IN  /\ Has(r.body, "body")
                   /\ IF rec.jsonParameters
                      THEN /\ rec.commentJson \in ValidJson
                           /\ SameJs(r.body["body"], JSONParse(rec.commentJson))
                      ELSE IF jiraVersion = "server"
                           THEN SameJs(r.body["body"], JsStr(rec.comment))
                           ELSE SameJs(r.body["body"], CommentDocument(rec.comment))
    /\ (AttachmentFetch /\ pc = "done") =>
           \A k \in 1..Len(result) :
               LET rec == OutputRecord(k)
               IN  /\ Has(result[k], "binary") <=> rec.download
                   /\ rec.download => DOMAIN result[k].binary = {rec.binaryProperty}

----------------------------------------------------------------------------
(* order of the requests *)

\* at most one request is in flight: a request is issued only when every earlier
\* one was answered or has failed
OneInFlight ==
    \A m, n \in RequestIds : m < n => requests[m].status # "pending"

\* C16 as stated: at most one request is in flight, and for every operation all
\* requests of record i, content downloads included, complete before the first
\* request of record i+1 is issued
C16_RecordAtATime ==
    /\ OneInFlight
    /\ \A m, n \in RequestIds : m < n => requests[m].item <= requests[n].item

\* C16, amended: at most one request is in flight; the primary requests are
\* issued record by record; the content downloads of issueAttachment get/getAll
\* are issued after the primary requests of all records have completed, one at
\* a time in the order of the output records
C16_PrimaryThenDownloads ==
    /\ OneInFlight
    /\ \A m, n \in RequestIds : m < n =>
           /\ (IsDownload(requests[m]) <=> IsDownload(requests[n]))
                  => requests[m].item <= requests[n].item
           /\ IsDownload(requests[m]) => IsDownload(requests[n])
    /\ \A n \in RequestIds : IsDownload(requests[n]) =>
           /\ AttachmentFetch /\ DownloadOn
           /\ i = length
           /\ \A k \in 0..(length - 1) : \E m \in 1..(n - 1) :
                  requests[m].item = k /\ ~IsDownload(requests[m])

C16_Witness ==
    /\ pc = "done" /\ length = 2
    /\ \E m, n \in RequestIds :
           /\ m < n
           /\ ~IsDownload(requests[m]) /\ requests[m].item = 1
           /\ IsDownload(requests[n]) /\ requests[n].item = 0

----------------------------------------------------------------------------
(* failures *)

\* the requests m and n are the same request of the same record
SameRequest(m, n) ==
    /\ requests[m].item = requests[n].item
    /\ requests[m].method = requests[n].method
    /\ requests[m].path = requests[n].path
    /\ requests[m].uri = requests[n].uri

\* C17: no retry: no request of a record is issued twice; a failed request is
\* the last request of the run and its failure ends execute without a result;
\* issue create issues at most one GET /api/2/issuetype and at most one
\* POST /api/2/issue per input record
C17_NoRetry ==
    /\ \A m, n \in RequestIds : m < n => ~SameRequest(m, n)
    /\ \A n \in RequestIds : requests[n].status = "failed" =>
           /\ n = Len(requests)
           /\ pc = "failed"
           /\ error = RequestFailedMsg
           /\ result = <<>>
    /\ IssueCreate =>
           \A k \in 0..(length - 1) :
               /\ Cardinality({n \in RequestIds : requests[n].item = k
                                   /\ IsIssueTypeLookup(requests[n])}) <= 1
               /\ Cardinality({n \in RequestIds : requests[n].item = k
                                   /\ IsIssuePost(requests[n])}) <= 1

C17_Witness ==
    /\ IssueCreate /\ pc = "failed" /\ error = RequestFailedMsg
    /\ Len(requests) = 4
    /\ requests[4].status = "failed" /\ IsIssuePost(requests[4])
    /\ requests[3].status = "ok" /\ IsIssueTypeLookup(requests[3])

----------------------------------------------------------------------------
(* lookup and mutation *)

\* the fields of a record that carry its issue type and parent key
GivenFields(rec) == IF IssueCreate THEN rec.additionalFields ELSE rec.updateFields

\* the answered lookup r reports the issue type of its record as sub-task
TypeIsSubtask(r) ==
    IF IssueCreate THEN ReportedSubtask(r, RecordOf(r).issueType)
    ELSE /\ Has(RecordOf(r).updateFields, "issueType")
         /\ ReportedSubtask(r, RecordOf(r).updateFields["issueType"])

\* C18: lookup precedes mutation: on issue create and update every mutating
\* request of a record follows the answered lookup GET /api/2/issuetype of that
\* record, and validation goes by exactly the ids the lookup's response flags as
\* sub-task: the record fails iff its type is flagged and it has no parent key,
\* and its issue body carries a parent iff its type is flagged and it has one
C18_LookupPrecedesMutation ==
    (IssueCreate \/ IssueUpdate) =>
        /\ \A n \in RequestIds : IsMutating(requests[n]) =>
               \E m \in 1..(n - 1) :
                   /\ requests[m].item = requests[n].item
                   /\ IsIssueTypeLookup(requests[m])
                   /\ requests[m].status = "ok"
        /\ \A m \in RequestIds :
               (IsIssueTypeLookup(requests[m]) /\ requests[m].status = "ok") =>
                   LET r == requests[m]
                       given == GivenFields(RecordOf(r))
                   IN  /\ (TypeIsSubtask(r) /\ NoParentKey(given))
                              <=> (pc = "failed" /\ error = ParentKeyMsg /\ i = r.item)
                       /\ \A n \in RequestIds :
                              (/\ requests[n].item = r.item
                               /\ IsIssuePost(requests[n]) \/ IsIssuePut(requests[n]))
                              => (Has(requests[n].body.fields, "parent")
                                      <=> (TypeIsSubtask(r) /\ ~NoParentKey(given)))

C18_Witness ==
    /\ IssueUpdate /\ pc = "update_put"
    /\ \E m \in RequestIds :
           /\ ReportedSubtask(requests[m], "10002")
           /\ ReportedNotSubtask(requests[m], "10001")
           /\ NoParentKey(RecordOf(requests[m]).updateFields)
           /\ Has(RecordOf(requests[m]).updateFields, "issueType")
           /\ \E n \in RequestIds :
                  /\ m < n /\ requests[n].item = requests[m].item
                  /\ IsIssuePut(requests[n])

----------------------------------------------------------------------------
(* The descriptor tables of the bookmark, campaign and document resources: each
   field spec with its name, type and the displayOptions.show condition *)

\* bookmarkOperations: the operation selector of the resource and its options
bookmarkOperations ==
    <<[name |-> "operation", type |-> "options", default |-> "get",
      options |-> {"create", "delete", "get", "getAll", "update"},
      show |-> [resource |-> {"bookmark"}]]>>

\* faulty variant: the limit of getAll is shown whatever returnAll is
bookmarkFields_LimitAlways ==
    <<[name |-> "returnAll", type |-> "boolean",
      show |-> [resource |-> {"bookmark"}, operation |-> {"getAll"}]],
     [name |-> "limit", type |-> "number", default |-> 5, typeOptions |-> [minValue |-> 1, maxValue |-> 10],
      show |-> [resource |-> {"bookmark"}, operation |-> {"getAll"}]]>>

\* bookmarkFields: the top-level field specs, with displayOptions.show
bookmarkFields ==
    <<[name |-> "collectionId", type |-> "options",
      show |-> [resource |-> {"bookmark"}, operation |-> {"create"}]],
     [name |-> "link", type |-> "string",
      show |-> [resource |-> {"bookmark"}, operation |-> {"create"}]],
     [name |-> "additionalFields", type |-> "collection",
      show |-> [resource |-> {"bookmark"}, operation |-> {"create"}]],
     [name |-> "bookmarkId", type |-> "string",
      show |-> [resource |-> {"bookmark"}, operation |-> {"delete"}]],
     [name |-> "bookmarkId", type |-> "string",
      show |-> [resource |-> {"bookmark"}, operation |-> {"get"}]],
     [name |-> "collectionId", type |-> "options",
      show |-> [resource |-> {"bookmark"}, operation |-> {"getAll"}]],
     [name |-> "returnAll", type |-> "boolean",
      show |-> [resource |-> {"bookmark"}, operation |-> {"getAll"}]],
     [name |-> "limit", type |-> "number", default |-> 5, typeOptions |-> [minValue |-> 1, maxValue |-> 10],
      show |-> [resource |-> {"bookmark"}, operation |-> {"getAll"}, returnAll |-> {FALSE}]],
     [name |-> "bookmarkId", type |-> "string",
      show |-> [resource |-> {"bookmark"}, operation |-> {"update"}]],
     [name |-> "updateFields", type |-> "collection",
      show |-> [resource |-> {"bookmark"}, operation |-> {"update"}]]>>

\* faulty variant: the selector does not offer pause, which campaignId is shown for
campaignOperations_WithoutPause ==
    <<[name |-> "operation", type |-> "options", default |-> "get",
      options |-> {"addContact", "create", "get", "getAll", "start"},
      show |-> [resource |-> {"campaign"}]]>>

\* campaignOperations: the operation selector of the resource and its options
campaignOperations ==
    <<[name |-> "operation", type |-> "options", default |-> "get",
      options |-> {"addContact", "create", "get", "getAll", "pause", "start"},
      show |-> [resource |-> {"campaign"}]]>>

\* faulty variant: the string campaignId of get is shown under addContact as well
campaignFields_GetUnderAddContact ==
    <<[name |-> "campaignId", type |-> "options",
      show |-> [resource |-> {"campaign"}, operation |-> {"addContact"}]],
     [name |-> "campaignId", type |-> "string",
      show |-> [resource |-> {"campaign"}, operation |-> {"get", "addContact"}]]>>

\* campaignFields: the top-level field specs, with displayOptions.show
campaignFields ==
    <<[name |-> "campaignId", type |-> "options",
      show |-> [resource |-> {"campaign"}, operation |-> {"addContact"}]],
     [name |-> "contactEmail", type |-> "string",
      show |-> [resource |-> {"campaign"}, operation |-> {"addContact"}]],
     [name |-> "additionalFields", type |-> "collection",
      show |-> [resource |-> {"campaign"}, operation |-> {"addContact"}]],
     [name |-> "campaignName", type |-> "string",
      show |-> [resource |-> {"campaign"}, operation |-> {"create"}]],
     [name |-> "campaignId", type |-> "string",
      show |-> [resource |-> {"campaign"}, operation |-> {"get"}]],
     [name |-> "returnAll", type |-> "boolean",
      show |-> [resource |-> {"campaign"}, operation |-> {"getAll"}]],
     [name |-> "limit", type |-> "number", default |-> 100, typeOptions |-> [minValue |-> 1, maxValue |-> 100],
      show |-> [resource |-> {"campaign"}, operation |-> {"getAll"}, returnAll |-> {FALSE}]],
     [name |-> "campaignId", type |-> "string",
      show |-> [resource |-> {"campaign"}, operation |-> {"pause"}]],
     [name |-> "campaignId", type |-> "string",
      show |-> [resource |-> {"campaign"}, operation |-> {"start"}]]>>

\* documentOperations: the operation selector of the resource and its options
documentOperations ==
    <<[name |-> "operation", type |-> "options", default |-> "get",
      options |-> {"create", "delete", "get", "getAll", "update"},
      show |-> [resource |-> {"document"}]]>>

\* documentFields, section "document: delete"
documentFieldsDelete ==
    <<[name |-> "indexId", type |-> "string",
      show |-> [resource |-> {"document"}, operation |-> {"delete"}]],
     [name |-> "documentId", type |-> "string",
      show |-> [resource |-> {"document"}, operation |-> {"delete"}]]>>

\* documentFields, section "document: get"
documentFieldsGet ==
    <<[name |-> "indexId", type |-> "string",
      show |-> [resource |-> {"document"}, operation |-> {"get"}]],
     [name |-> "documentId", type |-> "string",
      show |-> [resource |-> {"document"}, operation |-> {"get"}]],
     [name |-> "simple", type |-> "boolean",
      show |-> [resource |-> {"document"}, operation |-> {"get"}]],
     [name |-> "options", type |-> "collection",
      show |-> [resource |-> {"document"}, operation |-> {"get"}]]>>

\* documentFields, section "document: getAll"
documentFieldsGetAll ==
    <<[name |-> "indexId", type |-> "string",
      show |-> [resource |-> {"document"}, operation |-> {"getAll"}]],
     [name |-> "returnAll", type |-> "boolean",
      show |-> [resource |-> {"document"}, operation |-> {"getAll"}]],
     [name |-> "limit", type |-> "number", default |-> 50, typeOptions |-> [minValue |-> 1],
      show |-> [resource |-> {"document"}, operation |-> {"getAll"}, returnAll |-> {FALSE}]],
     [name |-> "simple", type |-> "boolean",
      show |-> [resource |-> {"document"}, operation |-> {"getAll"}]],
     [name |-> "options", type |-> "collection",
      show |-> [resource |-> {"document"}, operation |-> {"getAll"}]]>>

\* documentFields, section "document: create"
documentFieldsCreate ==
    <<[name |-> "indexId", type |-> "string",
      show |-> [resource |-> {"document"}, operation |-> {"create"}]],
     [name |-> "dataToSend", type |-> "options", default |-> "defineBelow",
      options |-> {"defineBelow", "autoMapInputData"},
      show |-> [resource |-> {"document"}, operation |-> {"create"}]],
     [name |-> "inputsToIgnore", type |-> "string",
      show |-> [resource |-> {"document"}, operation |-> {"create"}, dataToSend |-> {"autoMapInputData"}]],
     [name |-> "fieldsUi", type |-> "fixedCollection",
      show |-> [resource |-> {"document"}, operation |-> {"create"}, dataToSend |-> {"defineBelow"}]],
     [name |-> "additionalFields", type |-> "collection",
      show |-> [resource |-> {"document"}, operation |-> {"create"}]]>>

\* faulty variant: inputsToIgnore is shown whatever dataToSend is
documentFieldsUpdate_NoDiscriminator ==
    <<[name |-> "dataToSend", type |-> "options", default |-> "defineBelow",
      options |-> {"defineBelow", "autoMapInputData"},
      show |-> [resource |-> {"document"}, operation |-> {"update"}]],
     [name |-> "inputsToIgnore", type |-> "string",
      show |-> [resource |-> {"document"}, operation |-> {"update"}]],
     [name |-> "fieldsUi", type |-> "fixedCollection",
      show |-> [resource |-> {"document"}, operation |-> {"update"}, dataToSend |-> {"defineBelow"}]]>>

\* documentFields, section "document: update"
documentFieldsUpdate ==
    <<[name |-> "indexId", type |-> "string",
      show |-> [resource |-> {"document"}, operation |-> {"update"}]],
     [name |-> "documentId", type |-> "string",
      show |-> [resource |-> {"document"}, operation |-> {"update"}]],
     [name |-> "dataToSend", type |-> "options", default |-> "defineBelow",
      options |-> {"defineBelow", "autoMapInputData"},
      show |-> [resource |-> {"document"}, operation |-> {"update"}]],
     [name |-> "inputsToIgnore", type |-> "string",
      show |-> [resource |-> {"document"}, operation |-> {"update"}, dataToSend |-> {"autoMapInputData"}]],
     [name |-> "fieldsUi", type |-> "fixedCollection",
      show |-> [resource |-> {"document"}, operation |-> {"update"}, dataToSend |-> {"defineBelow"}]]>>

documentFields ==
    documentFieldsDelete
        \o documentFieldsGet
        \o documentFieldsGetAll
        \o documentFieldsCreate
        \o documentFieldsUpdate

\* the enum and numeric options nested in the collections of bookmarkFields
\* (additionalFields, updateFields)
bookmarkFieldsOptions ==
    <<[name |-> "order", type |-> "number", default |-> 0],
     [name |-> "order", type |-> "number", default |-> 0]>>

\* the numeric option nested in additionalFields of campaignFields
campaignFieldsOptions ==
    <<[name |-> "mailsSent", type |-> "number", default |-> 0]>>

\* the enum and numeric options nested in the options collection of
\* documentFields, section "document: getAll"
documentFieldsOptions ==
    <<[name |-> "batched_reduce_size", type |-> "number", default |-> 512,
      typeOptions |-> [minValue |-> 2]],
     [name |-> "expand_wildcards", type |-> "options", default |-> "open",
      options |-> {"all", "closed", "hidden", "none", "open"}],
     [name |-> "max_concurrent_shard_requests", type |-> "number", default |-> 5],
     [name |-> "pre_filter_shard_size", type |-> "number", default |-> 1,
      typeOptions |-> [minValue |-> 1]],
     [name |-> "search_type", type |-> "options", default |-> "query_then_fetch",
      options |-> {"dfs_query_then_fetch", "query_then_fetch"}],
     [name |-> "terminate_after", type |-> "number", default |-> 0],
     [name |-> "track_total_hits", type |-> "number", default |-> 10000]>>

----------------------------------------------------------------------------
(* The parameter form of a node: the resource, the selected operation and the
   parameter values (items[1]) decide which field specs are displayed *)

DescribedResources == {"bookmark", "campaign", "document"}

\* the properties of the node that offers the resource
properties ==
    CASE resource = "bookmark" -> bookmarkOperations \o bookmarkFields
      [] resource = "campaign" -> campaignOperations \o campaignFields
      [] resource = "document" -> documentOperations \o documentFields
      [] OTHER -> <<>>

\* the parameters the display conditions of the tables refer to, with defaults
FormDefaults == [dataToSend |-> "defineBelow", returnAll |-> FALSE, simple |-> TRUE]

\* the values a parameter of the form can take
ParameterValues(name) ==
    IF name = "dataToSend" THEN documentFieldsCreate[2].options ELSE BOOLEAN

nodeValues == Assign(items[1], [resource |-> resource, operation |-> operation])

\* displayOptions.show: a spec is displayed iff the value of every parameter the
\* condition names is one of the values listed for it
displayParameter(values, parameter) ==
    \A key \in DOMAIN parameter.show :
        Has(values, key) /\ values[key] \in parameter.show[key]

\* the displayed specs of the node, by position
Displayed == {n \in 1..Len(properties) : displayParameter(nodeValues, properties[n])}

DisplayedNames == {properties[n].name : n \in Displayed}

\* the user picks one of the options of the operation selector
SelectOperation ==
    /\ resource \in DescribedResources
    /\ \E value \in properties[1].options : operation' = value
    /\ UNCHANGED <<resource, jiraVersion, items, i, index, pc, qs, body, fields,
                   requests, returnData, error, result>>

\* a parameter value is set; values of specs that are not displayed are kept
SetParameter ==
    /\ resource \in DescribedResources
    /\ \E name \in DOMAIN FormDefaults : \E value \in ParameterValues(name) :
           items' = [items EXCEPT ![1][name] = value]
    /\ UNCHANGED <<resource, operation, jiraVersion, i, index, pc, qs, body, fields,
                   requests, returnData, error, result>>

InitFields ==
    /\ resource \in DescribedResources
    /\ operation = "get"
    /\ items = <<FormDefaults>>
    /\ jiraVersion = "cloud"
    /\ i = 0
    /\ index = 0
    /\ pc = "loop"
    /\ qs = EmptyMap
    /\ body = EmptyMap
    /\ fields = EmptyMap
    /\ requests = <<>>
    /\ returnData = <<>>
    /\ error = ""
    /\ result = <<>>

NextFields ==
    \/ SelectOperation
    \/ SetParameter

SpecFields == InitFields /\ [][NextFields]_vars

\* C19: mutually exclusive field groups: in the document descriptors, under create
\* and update and for every value of dataToSend, exactly one of the two groups is
\* displayed: fieldsUi exactly when dataToSend = defineBelow, inputsToIgnore
\* exactly when dataToSend = autoMapInputData
C19_ExclusiveFieldGroups ==
    (resource = "document" /\ operation \in {"create", "update"}) =>
        /\ "fieldsUi" \in DisplayedNames <=> items[1].dataToSend = "defineBelow"
        /\ "inputsToIgnore" \in DisplayedNames <=> items[1].dataToSend = "autoMapInputData"
        /\ Cardinality(DisplayedNames \cap {"fieldsUi", "inputsToIgnore"}) = 1

C19_Witness ==
    /\ resource = "document" /\ operation = "update"
    /\ items[1].dataToSend = "autoMapInputData"
    /\ "inputsToIgnore" \in DisplayedNames
    /\ "fieldsUi" \notin DisplayedNames

\* C20: unique field keys per operation: in the bookmark, campaign and document
\* tables, for every operation and every assignment of the discriminators, no
\* two displayed top-level field specs have the same name
C20_UniqueFieldKeys ==
    resource \in DescribedResources =>
        \A m, n \in Displayed : properties[m].name = properties[n].name => m = n

C20_Witness ==
    /\ resource = "campaign" /\ operation = "addContact"
    /\ items[1].dataToSend = "autoMapInputData"
    /\ \E n \in Displayed :
           properties[n].name = "campaignId" /\ properties[n].type = "options"
    /\ \E n \in 1..Len(properties) :
           /\ properties[n].name = "campaignId" /\ properties[n].type = "string"
           /\ n \notin Displayed

\* C21: limit visibility: in the bookmark, campaign and document tables the limit
\* field is displayed exactly when operation = getAll and returnAll = false, and
\* the returnAll field exactly when operation = getAll
C21_LimitVisibility ==
    resource \in DescribedResources =>
        /\ "limit" \in DisplayedNames
               <=> (operation = "getAll" /\ items[1].returnAll = FALSE)
        /\ "returnAll" \in DisplayedNames <=> operation = "getAll"

C21_Witness ==
    /\ resource = "bookmark" /\ operation = "getAll"
    /\ items[1].returnAll = TRUE
    /\ "returnAll" \in DisplayedNames
    /\ "limit" \notin DisplayedNames

----------------------------------------------------------------------------
(* API version *)

\* the API version a request path names; the endpoints of the issue resource
\* are written with the version inside their first segment
ApiTwoSegments == {"/api/2/issuetype", "/api/2/issue", "/api/2/issue/", "/api/2/search"}

VersionOf(path) ==
    IF path[1] = "/api/" THEN path[2]
    ELSE IF path[1] \in ApiTwoSegments THEN "2" ELSE "none"

\* C22: API version selection: every request path of the resources issueComment,
\* issueAttachment and user names version 2 when jiraVersion = server and
\* version 3 otherwise; the requests of the issue resource always name version 2
C22_ApiVersionSelection ==
    \A n \in RequestIds :
        ~IsDownload(requests[n]) =>
            VersionOf(requests[n].path)
                = IF resource = "issue" \/ jiraVersion = "server" THEN "2" ELSE "3"

----------------------------------------------------------------------------
(* notify recipients *)

RecipientFlags == {"reporter", "assignee", "watchers", "voters"}

\* C23: notify recipient flags: with jsonParameters = false every recipient flag
\* of body.to is governed by the input of the same name only: it is set exactly
\* when that input is set
C23_NotifyRecipientFlags ==
    (IssueNotify /\ ~JsonMode) =>
        \A n \in RequestIds :
            LET r == requests[n]
                ui == RecordOf(r).notificationRecipientsUi
            IN  (~RecordOf(r).jsonParameters /\ Has(ui, "notificationRecipientsValues")) =>
                    \A flag \in RecipientFlags :
                        /\ Has(r.body["to"].v, flag)
                               <=> ui["notificationRecipientsValues"][flag]
                        /\ Has(r.body["to"].v, flag) => r.body["to"].v[flag] = TRUE

----------------------------------------------------------------------------
(* issue update: order of the calls *)

IsTransitionPost(r) ==
    r.method = "POST" /\ Len(r.path) = 3 /\ r.path[3] = "/transitions"

\* the requests issued for record k, in the order they were issued
RequestsOfRecord(k) ==
    LET Mine(r) == r.item = k
    IN  SelectSeq(requests, Mine)

\* C24: issue update: the requests of a record are the lookup GET /api/2/issuetype,
\* then, only if statusId is supplied, POST /api/2/issue/{key}/transitions with
\* transition.id = statusId, then PUT /api/2/issue/{key}; each is issued only
\* after the one before it succeeded, a finished record has issued all of them,
\* and nothing follows a failed PUT, so a transition that succeeded stays applied
C24_UpdateCallOrder ==
    IssueUpdate =>
        \A k \in 0..(length - 1) :
            LET own == RequestsOfRecord(k)
                rec == items[k + 1]
                status == TruthyStr(rec.updateFields, "statusId")
                put == IF status THEN 3 ELSE 2
            IN  /\ Len(own) <= put
                /\ Len(own) >= 1 => IsIssueTypeLookup(own[1])
                /\ (status /\ Len(own) >= 2) =>
                       /\ IsTransitionPost(own[2])
                       /\ own[2].path[2] = rec.issueKey
                       /\ own[2].body = [transition |-> [id |-> rec.updateFields["statusId"]]]
                /\ Len(own) >= put =>
                       /\ IsIssuePut(own[put])
                       /\ own[put].path[2] = rec.issueKey
                /\ \A n \in 2..Len(own) : own[n - 1].status = "ok"
                /\ k < i => (Len(own) = put /\ own[put].status = "ok")
                /\ (Len(own) = put /\ own[put].status = "failed") =>
                       /\ pc = "failed" /\ i = k
                       /\ requests[Len(requests)] = own[put]

C24_Witness ==
    /\ IssueUpdate /\ pc = "failed" /\ error = RequestFailedMsg
    /\ LET own == RequestsOfRecord(i)
       IN  /\ Len(own) = 3
           /\ IsTransitionPost(own[2]) /\ own[2].status = "ok"
           /\ IsIssuePut(own[3]) /\ own[3].status = "failed"

----------------------------------------------------------------------------
(* one output per input *)

\* the operations that issue their requests for one record and push one output
OneToOne ==
    \/ resource = "issue" /\ operation \in {"create", "update", "get", "delete", "notify"}
    \/ resource = "issueAttachment" /\ operation \in {"remove", "get"}
    \/ resource = "issueComment" /\ operation \in {"add", "get", "update", "remove"}
    \/ resource = "user" /\ operation \in {"create", "get", "delete"}

\* the operations that push { success: true } whatever the response is
SuccessOperations ==
    {<<"issue", "update">>, <<"issue", "delete">>, <<"issueAttachment", "remove">>,
     <<"issueComment", "remove">>, <<"user", "delete">>}

\* a completed run returns one output per input record, the k-th for the k-th
\* record: { success: true } for the operations in S, else the response to the
\* record's request (for issueAttachment get: the metadata, under json)
OneOutputPerInput(S) ==
    (OneToOne /\ pc = "done") =>
        /\ Len(result) = length
        /\ \A k \in 1..length :
               IF <<resource, operation>> \in S
               THEN /\ DOMAIN result[k] = {"success"}
                    /\ result[k].success = TRUE
               ELSE \E n \in RequestIds :
                        /\ requests[n].item = k - 1
                        /\ requests[n].status = "ok"
                        /\ IF AttachmentFetch
                           THEN ~IsDownload(requests[n]) /\ result[k].json = requests[n].data
                           ELSE /\ DOMAIN result[k] = {"response"}
                                /\ result[k].response = n

\* C25 as stated: one output per input, in order, and every update, delete and
\* remove operation outputs { success: true }
C25_OneOutputPerInput ==
    OneOutputPerInput(SuccessOperations \cup {<<"issueComment", "update">>})

\* C25, amended: one output per input, in order; issue update, issue delete,
\* issueAttachment remove, issueComment remove and user delete output
\* { success: true }, every other one-to-one operation, issueComment update
\* included, outputs the response to the record's request
C25_OneOutputPerInputOrResponse ==
    OneOutputPerInput(SuccessOperations)

C25_Witness ==
    /\ resource = "issueComment" /\ operation = "update" /\ pc = "done"
    /\ length = 2
    /\ result = <<[response |-> 1], [response |-> 2]>>

----------------------------------------------------------------------------
(* methods.credentialTest.jiraSoftwareApiTest: items holds the credential under
   test, requests the request of the test, result the returned test result *)

Domains == {"https://a.atlassian.net", "https://b.atlassian.net", "http://jira.local"}

\* credential.data: the cloud credential carries apiToken, the server one password
CredentialData ==
    [email : {"e1", "e2"}, password : {"", "p"}, apiToken : {"", "t"}, domain : Domains]

\* err.message of a rejected request
FailureMessages == {"401", "ETIMEDOUT", "ENOTFOUND"}

\* Buffer.from(`${email}:${password || apiToken}`).toString('base64')
BasicAuth(c) ==
    [base64 |-> <<c.email, ":", IF c.password # "" THEN c.password ELSE c.apiToken>>]

\* the options of the test request are built and the request is awaited
jiraSoftwareApiTest ==
    /\ pc = "test"
    /\ LET credentials == items[1]
           options == [Request("GET", <<>>, EmptyMap, Put(EmptyMap, "recent", 0)) EXCEPT
                           !.uri = <<credentials.domain, "/rest/api/2/project">>,
                           !.option = Put(Put(EmptyMap, "Authorization", BasicAuth(credentials)),
                                          "timeout", 5000)]
       IN  requests' = Append(requests, options)
    /\ pc' = "test_request"
    /\ UNCHANGED <<resource, operation, jiraVersion, index, items, i, qs, body, fields,
                   returnData, error, result>>

\* the request resolves: return { status: 'OK', ... }
TestRequestSucceeds ==
    /\ pc = "test_request"
    /\ requests' = Respond("ok", <<>>)
    /\ result' = <<[status |-> "OK", message |-> <<"Authentication successful!">>]>>
    /\ pc' = "tested"
    /\ UNCHANGED <<resource, operation, jiraVersion, index, items, i, qs, body, fields,
                   returnData, error>>

\* faulty variant: the rejection is not caught
TestRequestFails_Throws ==
    /\ pc = "test_request"
    /\ \E msg \in FailureMessages :
        /\ requests' = Respond("failed", <<msg>>)
        /\ error' = msg
    /\ pc' = "failed"
    /\ UNCHANGED <<resource, operation, jiraVersion, index, items, i, qs, body, fields,
                   returnData, result>>

\* the request rejects: the catch block returns { status: 'Error', ... }
TestRequestFails ==
    /\ pc = "test_request"
    /\ \E msg \in FailureMessages :
        /\ requests' = Respond("failed", <<msg>>)
        /\ result' = <<[status |-> "Error",
                        message |-> <<"Connection details not valid: ", msg>>]>>
    /\ pc' = "tested"
    /\ UNCHANGED <<resource, operation, jiraVersion, index, items, i, qs, body, fields,
                   returnData, error>>

InitTest ==
    /\ items \in {<<c>> : c \in CredentialData}
    /\ pc = "test"
    /\ resource = "issue"
    /\ operation = "get"
    /\ jiraVersion = "cloud"
    /\ i = 0
    /\ index = 0
    /\ qs = EmptyMap
    /\ body = EmptyMap
    /\ fields = EmptyMap
    /\ requests = <<>>
    /\ returnData = <<>>
    /\ error = ""
    /\ result = <<>>

NextTest ==
    \/ jiraSoftwareApiTest
    \/ TestRequestSucceeds
    \/ TestRequestFails

SpecTest == InitTest /\ [][NextTest]_vars

\* C26: the credential test never throws: it issues exactly one request,
\* GET {domain}/rest/api/2/project, returns status OK if and only if that request
\* succeeds, and on a failure returns status Error with the failure message
C26_CredentialTestNeverThrows ==
    /\ error = "" /\ pc # "failed"
    /\ Len(requests) <= 1
    /\ \A n \in RequestIds :
           /\ requests[n].method = "GET"
           /\ requests[n].uri = <<items[1].domain, "/rest/api/2/project">>
    /\ requests # <<>> /\ requests[1].status # "pending" =>
           /\ pc = "tested"
           /\ Len(result) = 1
           /\ result[1].status \in {"OK", "Error"}
           /\ result[1].status = "OK" <=> requests[1].status = "ok"
           /\ requests[1].status = "failed" =>
                  /\ result[1].status = "Error"
                  /\ \E k \in 1..Len(result[1].message) :
                         <<result[1].message[k]>> = requests[1].data
    /\ pc = "tested" => Len(requests) = 1 /\ requests[1].status # "pending"

C26_Witness ==
    /\ pc = "tested"
    /\ requests[1].status = "failed"
    /\ requests[1].data = <<"ETIMEDOUT">>
    /\ result[1].status = "Error"

----------------------------------------------------------------------------
(* updateHistory *)

\* the request carries updateHistory = true in its query string
SendsUpdateHistory(r) == TruthyBool(r.qs, "updateHistory")

\* the record the request was issued for sets additionalFields.updateHistory
WantsUpdateHistory(r) == TruthyBool(items[r.item + 1].additionalFields, "updateHistory")

\* on issue get, updateHistory goes with GET /api/2/issue/{key}
UpdateHistoryOnGet ==
    (resource = "issue" /\ operation = "get") =>
        \A n \in RequestIds :
            (requests[n].method = "GET" /\ WantsUpdateHistory(requests[n]))
                => SendsUpdateHistory(requests[n])

\* C27: updateHistory on create: when additionalFields.updateHistory is set on
\* an issue create record, the updateHistory query parameter is sent with that
\* record's POST /api/2/issue, as it is sent with GET /api/2/issue/{key} on get
C27_UpdateHistoryOnCreate ==
    /\ UpdateHistoryOnGet
    /\ (resource = "issue" /\ operation = "create") =>
           \A n \in RequestIds :
               (/\ requests[n].method = "POST"
                /\ requests[n].path = <<"/api/2/issue">>
                /\ WantsUpdateHistory(requests[n]))
                   => SendsUpdateHistory(requests[n])

----------------------------------------------------------------------------
(* issueAttachment add: the precondition *)

IsAttachmentPost(r) ==
    /\ r.method = "POST"
    /\ Len(r.path) = 5
    /\ r.path[3] = "/issue/" /\ r.path[5] = "/attachments"

\* the record has binary data under the property named by binaryPropertyName
HasNamedBinary(k) ==
    /\ items[k + 1].binary.defined
    /\ Has(items[k + 1].binary.props, items[k + 1].binaryPropertyName)

----------------------------------------------------------------------------
(* where the limit is sent *)

\* the part of a request that the endpoint reads its parameters from
ReadPart(r) == IF r.method = "GET" THEN r.qs ELSE r.body

\* the request carries the limit of its record as maxResults where it is read
SendsLimit(r) ==
    /\ Has(ReadPart(r), "maxResults")
    /\ ReadPart(r)["maxResults"] = RecordOf(r).limit

LimitedListOperation ==
    \/ resource = "issue" /\ operation \in {"getAll", "changelog"}
    \/ resource = "issueComment" /\ operation = "getAll"

\* the limit reaches the server for issue getAll (body of POST /api/2/search)
\* and issue changelog (query string of the GET)
LimitSentByIssueLists ==
    (resource = "issue" /\ operation \in {"getAll", "changelog"}) =>
        \A n \in RequestIds :
            ~RecordOf(requests[n]).returnAll => SendsLimit(requests[n])

\* C29: where the limit is sent: every limited list request carries its limit
\* as maxResults in the part the endpoint reads: the body for POST
\* /api/2/search, the query string for the GET list endpoints (issue changelog
\* and issueComment getAll)
C29_LimitWhereRead ==
    LimitedListOperation =>
        \A n \in RequestIds :
            ~RecordOf(requests[n]).returnAll =>
                /\ requests[n].method = (IF operation = "getAll" /\ resource = "issue"
                                         THEN "POST" ELSE "GET")
                /\ SendsLimit(requests[n])

----------------------------------------------------------------------------
(* referential integrity of the descriptor tables *)

\* the enum and numeric options nested in the collections of the resource
nestedOptions ==
    CASE resource = "bookmark" -> bookmarkFieldsOptions
      [] resource = "campaign" -> campaignFieldsOptions
      [] resource = "document" -> documentFieldsOptions
      [] OTHER -> <<>>

\* every field spec of the resource, top-level or nested
AllSpecs ==
    {properties[n] : n \in 1..Len(properties)}
        \cup {nestedOptions[n] : n \in 1..Len(nestedOptions)}

\* a static enum: an options field with a literal list of options
IsStaticEnum(spec) == spec.type = "options" /\ Has(spec, "options")

\* the default of a numeric spec lies within the bounds it declares
DefaultWithinBounds(spec) ==
    Has(spec, "typeOptions") =>
        /\ Has(spec.typeOptions, "minValue") => spec.default >= spec.typeOptions.minValue
        /\ Has(spec.typeOptions, "maxValue") => spec.default <= spec.typeOptions.maxValue

\* C30: descriptor referential integrity: in the bookmark, campaign and document
\* tables, every operation named in a show condition is an option of the
\* operation selector, every option has a field shown for it, the selector's
\* default 'get' is an option, every static enum's default is one of its
\* options, and every numeric default lies within its minValue/maxValue
C30_DescriptorIntegrity ==
    resource \in DescribedResources =>
        LET selector == properties[1]
            fieldSpecs == {properties[n] : n \in 2..Len(properties)}
        IN  /\ selector.name = "operation"
            /\ operation \in selector.options
            /\ \A spec \in fieldSpecs :
                   /\ Has(spec.show, "operation")
                   /\ spec.show.operation \subseteq selector.options
            /\ \A value \in selector.options :
                   \E spec \in fieldSpecs : value \in spec.show.operation
            /\ selector.default = "get"
            /\ selector.default \in selector.options
            /\ \A spec \in AllSpecs :
                   /\ IsStaticEnum(spec) => spec.default \in spec.options
                   /\ spec.type = "number" => DefaultWithinBounds(spec)

C30_Witness ==
    /\ resource = "campaign" /\ operation = "pause"
    /\ "campaignId" \in DisplayedNames
    /\ \E spec \in AllSpecs :
           /\ spec.name = "limit"
           /\ spec.default = spec.typeOptions.maxValue

====
